---- MODULE Spec2Model ----
(***************************************************************************)
(* Job lifecycle of the SME website generator: the background pipeline     *)
(* (process_job driving WebsiteGeneratorOrchestrator.run), the deploy      *)
(* endpoint with the Vercel deployer, the preview endpoint, and the        *)
(* WebSocket fan-out (notify_job_update / websocket_job_updates).          *)
(*                                                                         *)
(* The application is single-threaded asyncio: a coroutine runs without    *)
(* interruption until it awaits something that really suspends (an         *)
(* outbound HTTP/AI call or a WebSocket send).  Every action below is one  *)
(* such atomic stretch: it resumes a coroutine at the await it is          *)
(* suspended on and runs it up to its next suspending await.               *)
(* job_store.get/update never suspend, and the store hands out the very    *)
(* Job object it holds, so jobs[j] is at once the stored record and the    *)
(* `job` local of every coroutine working on j.                            *)
(***************************************************************************)
EXTENDS Integers, Sequences, FiniteSets, TLC

VARIABLES
    jobs,            \* JobStore._jobs: job id -> Job record, None when absent
    ws_connections,  \* main.ws_connections: job id -> list of WebSocket
    proc,            \* one process_job task per job id: position and locals
    dep,             \* one deploy_job request per id: position and locals
    sock,            \* one websocket_job_updates handler per socket
    preview,         \* the last answer of get_job_preview
    settings,        \* app.config.settings (the part the services read)
    svc,             \* one scrape_all / extract_business_data call studied
                     \* on its own: its request, connectors and results
    gap,             \* one fill_gaps call studied on its own: the profile
                     \* it is given, the AI's answer and what it returns
    store            \* a JobStore studied on its own: _jobs and the answer
                     \* of its last operation

vars == <<jobs, ws_connections, proc, dep, sock, preview, settings, svc, gap, store>>

\* Python's None: for a string, for an object, for a list or message
NULL == "null"
None == [none |-> TRUE]
Nil == <<>>

JobIds == {"j1", "j2"}
Sockets == {"w1", "w2"}
DeployReqs == {"d1", "d2"}
JobNo(j) == IF j = "j1" THEN 1 ELSE 2
SocketNo(w) == IF w = "w1" THEN 1 ELSE 2
DeployNo(d) == IF d = "d1" THEN 1 ELSE 2
Urls == {"u1", "u2"}

\* _wait_for_ready's max_attempts (60 in the source), scaled down.
MaxAttempts == 3

-----------------------------------------------------------------------------
(* Job records *)

NewJob ==
    [status |-> "pending", error |-> Nil, current_stage |-> NULL,
     progress |-> <<>>, scrape_result |-> NULL, extracted_data |-> NULL,
     generated_site |-> None, deployment |-> None]

JobStatus ==
    {"pending", "scraping", "extracting", "generating", "deploying",
     "completed", "failed"}

-----------------------------------------------------------------------------
(* Code positions.  A label names the source line of an await (a call      *)
(* that suspends, or a notification whose pushes suspend) or of a stretch  *)
(* of synchronous code.                                                    *)

\* on_progress(stage, message, percent) calls, by the line that makes them
ProgressEvent(pc) ==
    CASE pc = "orch72"  -> <<"scraping", 5>>
      [] pc = "scr70"   -> <<"scraping", 10>>
      [] pc = "scr95"   -> <<"scraping", 30>>
      [] pc = "orch87"  -> <<"extracting", 35>>
      [] pc = "ai52"    -> <<"extracting", 40>>
      [] pc = "ai74"    -> <<"extracting", 50>>
      [] pc = "orch103" -> <<"extracting", 55>>
      [] pc = "ai103"   -> <<"extracting", 55>>
      [] pc = "ai124"   -> <<"extracting", 60>>
      [] pc = "orch115" -> <<"generating", 65>>
      [] pc = "gen43"   -> <<"generating", 65>>
      [] pc = "gen57"   -> <<"generating", 90>>
      [] pc = "orch127" -> <<"completed", 100>>
      [] pc = "main130" -> <<"completed", 100>>

ProgressLabels ==
    {"orch72", "scr70", "scr95", "orch87", "ai52", "ai74", "orch103", "ai103",
     "ai124", "orch115", "gen43", "gen57", "orch127", "main130"}

\* bare notify_job_update calls: process_job's last one and deploy_job's three
NotifyLabels == {"main139", "main242", "main254", "main263"}

\* awaits of outbound calls
CallLabels ==
    {"scr73", "ai58", "ai108", "gen91", "gen127",
     "dep184", "dep202", "dep238", "dep259", "dep289"}

\* synchronous stretches
SyncLabels == {"main124", "main134", "main250", "main260", "main264", "main266"}

\* The position that follows pc in straight-line flow, given the locals.
Succ(loc, pc) ==
    CASE pc = "orch72"  -> "scr70"
      [] pc = "scr70"   -> "scr73"
      [] pc = "scr95"   -> "orch87"
      [] pc = "orch87"  -> "ai52"
      [] pc = "ai52"    -> "ai58"
      [] pc = "ai74"    -> IF loc.needs_gap THEN "orch103" ELSE "orch115"
      [] pc = "orch103" -> "ai103"
      [] pc = "ai103"   -> "ai108"
      [] pc = "ai124"   -> "orch115"
      [] pc = "orch115" -> "gen43"
      [] pc = "gen43"   -> IF settings.twentyfirst_api_key THEN "gen91" ELSE "gen127"
      [] pc = "gen57"   -> "orch127"
      [] pc = "orch127" -> "main124"
      [] pc = "main124" -> "main130"
      [] pc = "main130" -> "main139"
      [] pc = "main134" -> "main139"
      [] pc = "main139" -> "end"
      [] pc = "main242" -> "dep184"
      [] pc = "main250" -> "main254"
      [] pc = "main254" -> "main266"
      [] pc = "main266" -> "end"
      [] pc = "main260" -> "main263"
      [] pc = "main263" -> "main264"
      [] pc = "main264" -> "end"

\* A callback that puts the new event in front of the log.
on_progressPrepends(jb, pc) ==
    IF pc \in ProgressLabels
    THEN [jb EXCEPT !.current_stage = ProgressEvent(pc)[1],
                    !.progress = <<ProgressEvent(pc)>> \o @]
    ELSE jb

\* on_progress's synchronous part (main.py 107-114); a bare notify changes nothing.
on_progress(jb, pc) ==
    IF pc \in ProgressLabels
    THEN [jb EXCEPT !.current_stage = ProgressEvent(pc)[1],
                    !.progress = Append(@, ProgressEvent(pc))]
    ELSE jb

\* A success tail that stores the site without the scrape result.
ProcessSucceedsWithoutScrape(jb, loc) ==
    [jb EXCEPT !.extracted_data = loc.extracted_data,
               !.generated_site = loc.generated_site,
               !.status = "completed"]

\* process_job's success tail (main.py 124-128)
ProcessSucceeds(jb, loc) ==
    [jb EXCEPT !.scrape_result = loc.scrape_result,
               !.extracted_data = loc.extracted_data,
               !.generated_site = loc.generated_site,
               !.status = "completed"]

\* An except clause that records the error and leaves the status alone.
ProcessFailsKeepsStatus(jb, loc) ==
    [jb EXCEPT !.error = <<loc.exc>>]

\* process_job's except clause (main.py 132-136)
ProcessFails(jb, loc) ==
    [jb EXCEPT !.status = "failed", !.error = <<loc.exc>>]

\* deploy_job's success tail (main.py 250-253)
DeploySucceeds(jb, loc) ==
    [jb EXCEPT !.deployment = loc.result, !.status = "completed"]

\* deploy_job's except clause (main.py 258-262)
DeployFails(jb, loc) ==
    [jb EXCEPT !.status = "failed",
               !.error = <<"Deployment failed: ", loc.exc>>]

\* An except clause that also stores what the stages before the failing one
\* returned.
SyncJobStoresPartialResults(jb, loc, pc) ==
    CASE pc = "main124" -> ProcessSucceeds(jb, loc)
      [] pc = "main134" -> [ProcessFails(jb, loc) EXCEPT
                               !.scrape_result = loc.scrape_result,
                               !.extracted_data = loc.extracted_data]
      [] pc = "main250" -> DeploySucceeds(jb, loc)
      [] pc = "main260" -> DeployFails(jb, loc)
      [] OTHER -> jb

\* The effect of a synchronous stretch on the job and on the task's locals.
SyncJob(jb, loc, pc) ==
    CASE pc = "main124" -> ProcessSucceeds(jb, loc)
      [] pc = "main134" -> ProcessFails(jb, loc)
      [] pc = "main250" -> DeploySucceeds(jb, loc)
      [] pc = "main260" -> DeployFails(jb, loc)
      [] OTHER -> jb

SyncLoc(jb, loc, pc) ==
    CASE pc = "main266" -> [loc EXCEPT !.resp = [code |-> 200, detail |-> "Deployed successfully"]]
      [] pc = "main264" -> [loc EXCEPT !.resp = [code |-> 500, detail |-> loc.exc]]
      [] OTHER -> loc

\* Run a coroutine from position pc to its next suspending await.  A
\* notification suspends (at its first push) only when the job has
\* subscribers; without any it returns at once and the code runs on.
\* (The next position is bound to its value, so that it is computed once.)
The(S) == CHOOSE x \in S : TRUE

RECURSIVE Exec(_, _, _, _)
Exec(jb, loc, pc, hasSubs) ==
    IF pc = "end" \/ pc \in CallLabels
    THEN [job |-> jb, loc |-> loc, pc |-> pc, notify |-> FALSE]
    ELSE IF pc \in SyncLabels
    THEN The({Exec(SyncJob(jb, loc, pc), SyncLoc(jb, loc, pc), nxt, hasSubs) :
                 nxt \in {Succ(loc, pc)}})
    ELSE IF hasSubs
    THEN [job |-> on_progress(jb, pc), loc |-> loc, pc |-> pc, notify |-> TRUE]
    ELSE The({Exec(on_progress(jb, pc), loc, nxt, hasSubs) : nxt \in {Succ(loc, pc)}})

-----------------------------------------------------------------------------
(* The fan-out *)

Subscribers(j) == IF j \in DOMAIN ws_connections THEN ws_connections[j] ELSE <<>>

\* ws.send_json(job.model_dump()): the snapshot is taken when the push is
\* made; a push to a connection the client has closed raises, and
\* notify_job_update swallows that (main.py 90-93).
Push(sk, w, snap) ==
    IF sk[w].open THEN [sk EXCEPT ![w].last = snap] ELSE sk

\* The state a task is left in by Exec's result r: suspended at r.pc, inside
\* a notification (at the first element of the list) or at a call; at the
\* end its locals are gone (`blank` keeps what outlives the coroutine).
Suspended(r, blank) ==
    IF r.pc = "end" THEN blank
    ELSE [r.loc EXCEPT !.pc = r.pc, !.pos = IF r.notify THEN 1 ELSE 0,
                       !.stale = FALSE, !.remote = @ \/ r.pc \in CallLabels]

\* The next step of `for ws in ws_connections[job_id]` for a task suspended
\* at the push to list position loc.pos.  The list iterator holds the list
\* object and an index: it does not follow removals (an element that moved
\* down to an index already passed is skipped), it sees appends, and it is
\* exhausted at once when its list was emptied and deleted from the registry
\* (loc.stale), also when a new list has been registered since.
MorePushes(j, loc) ==
    /\ ~loc.stale
    /\ loc.pos + 1 <= Len(Subscribers(j))

\* Resume a task of job j from pc: run on, store the job, make the push the
\* task suspends on.
RunTask(j, loc, pc) ==
    Exec(jobs[j], loc, pc, j \in DOMAIN ws_connections)

PushOf(j, r) ==
    IF r.notify THEN Push(sock, Subscribers(j)[1], r.job) ELSE sock

\* The push to list position pos raises: notify_job_update's except clause
\* runs (main.py 92-93).
PushRaises(j, pos) == ~sock[Subscribers(j)[pos]].open

\* A task as Exec's result r leaves it, with whether the first push of the
\* notification it is suspended in raised.
Notifying(j, r, blank) ==
    [Suspended(r, blank) EXCEPT !.raised = r.notify /\ PushRaises(j, 1)]

-----------------------------------------------------------------------------
(* create_job and the background task process_job *)

ProcLocals ==
    [pc |-> "new", pos |-> 0, stale |-> FALSE, raised |-> FALSE, remote |-> FALSE,
     needs_gap |-> FALSE,
     scrape_result |-> NULL, extracted_data |-> NULL, generated_site |-> None,
     exc |-> NULL]

\* process_job has returned; what is left of it is the exception it logged
\* (main.py 133), if any.
Finished(loc) == [ProcLocals EXCEPT !.pc = "end", !.exc = loc.exc]

\* POST /api/jobs (main.py 163-191): store a pending job, queue process_job.
create_job(j) ==
    /\ proc[j].pc = "new"
    /\ jobs' = [jobs EXCEPT ![j] = NewJob]
    /\ proc' = [proc EXCEPT ![j].pc = "queued"]
    /\ UNCHANGED <<ws_connections, dep, sock, preview, settings, svc, gap, store>>

\* A step that stores the record under every job id of the store.
ProcessRunsStoresUnderEveryId(j, loc, pc) ==
    LET r == RunTask(j, loc, pc) IN
    /\ jobs' = [k \in JobIds |-> IF jobs[k] = None THEN None ELSE r.job]
    /\ proc' = [proc EXCEPT ![j] = Notifying(j, r, Finished(r.loc))]
    /\ sock' = PushOf(j, r)
    /\ UNCHANGED <<ws_connections, dep, preview, settings, svc, gap, store>>

\* A process_job step that resumes at pc with locals loc.
ProcessRuns(j, loc, pc) ==
    LET r == RunTask(j, loc, pc) IN
    /\ jobs' = [jobs EXCEPT ![j] = r.job]
    /\ proc' = [proc EXCEPT ![j] = Notifying(j, r, Finished(r.loc))]
    /\ sock' = PushOf(j, r)
    /\ UNCHANGED <<ws_connections, dep, preview, settings, svc, gap, store>>

\* process_job starts (main.py 98-118) and enters orchestrator.run.
process_job(j) ==
    /\ proc[j].pc = "queued"
    /\ ProcessRuns(j, proc[j], "orch72")

\* A push of a notification made by process_job returns (or raises).
ProcessPushReturns(j) ==
    /\ proc[j].pos > 0
    /\ IF MorePushes(j, proc[j])
       THEN /\ sock' = Push(sock, Subscribers(j)[proc[j].pos + 1], jobs[j])
            /\ proc' = [proc EXCEPT ![j].pos = @ + 1,
                                     ![j].raised = @ \/ PushRaises(j, proc[j].pos + 1)]
            /\ UNCHANGED <<jobs, ws_connections, dep, preview, settings, svc, gap, store>>
       ELSE \E nxt \in {Succ(proc[j], proc[j].pc)} : ProcessRuns(j, proc[j], nxt)

\* asyncio.gather over the four connectors returns (scraper.py 73-91).  The
\* connectors' failures are records or captured exceptions: scrape_all
\* returns a ScrapeResult whatever they do (see the scrape stage below).
ScrapeReturns(j) ==
    /\ proc[j].pc = "scr73"
    /\ ProcessRuns(j, [proc[j] EXCEPT !.scrape_result = "scrape_result"], "scr95")

\* The profiles of the pipeline, by name: what the orchestrator reads of
\* them (orchestrator.py 102).
ProfileOf(d) ==
    CASE d = "profile"            -> [data_quality_score |-> 75, missing_fields |-> <<>>]
      [] d = "weak profile"       -> [data_quality_score |-> 50, missing_fields |-> <<>>]
      [] d = "incomplete profile" -> [data_quality_score |-> 80, missing_fields |-> <<"email">>]
      [] d = "minimal profile"    -> [data_quality_score |-> 0, missing_fields |-> <<"all">>]
      [] d = "filled profile"     -> [data_quality_score |-> 90, missing_fields |-> <<>>]

\* A test that looks at the score only.
NeedsGapByScore(d) == ProfileOf(d).data_quality_score < 70

\* `if extracted_data.data_quality_score < 70 or extracted_data.missing_fields`
\* (orchestrator.py 102); the guard of fill_gaps (ai_engine.py 99) is its
\* negation, so that a fill_gaps called from here always makes the AI call.
NeedsGap(d) ==
    ProfileOf(d).data_quality_score < 70 \/ ProfileOf(d).missing_fields # <<>>

\* The extraction AI call returns or raises (ai_engine.py 57-86).
ExtractReturns(j) ==
    /\ proc[j].pc = "ai58"
    /\ \/ \E d \in {"profile", "weak profile", "incomplete profile", "minimal profile"} :
            ProcessRuns(j, [proc[j] EXCEPT !.extracted_data = d,
                                           !.needs_gap = NeedsGap(d)], "ai74")
       \/ ProcessRuns(j, [proc[j] EXCEPT !.extracted_data = "minimal profile",
                                         !.needs_gap = NeedsGap("minimal profile")],
                       IF NeedsGap("minimal profile") THEN "orch103" ELSE "orch115")

\* The gap-fill AI call returns or raises (ai_engine.py 107-130).
FillGapsReturns(j) ==
    /\ proc[j].pc = "ai108"
    /\ \/ ProcessRuns(j, [proc[j] EXCEPT !.extracted_data = "filled profile"], "ai124")
       \/ ProcessRuns(j, proc[j], "orch115")

SiteOf(html) ==
    [html |-> html,
     template_used |-> IF settings.twentyfirst_api_key THEN "21st_dev"
                                                       ELSE "tailwind_modern"]

\* The premium generation call returns or raises (website_generator.py 90-116).
PremiumReturns(j) ==
    /\ proc[j].pc = "gen91"
    /\ \/ ProcessRuns(j, [proc[j] EXCEPT !.generated_site = SiteOf("premium html")], "gen57")
       \/ ProcessRuns(j, proc[j], "gen127")

\* The template generation call returns or raises (website_generator.py 127-148).
GenerateReturns(j) ==
    /\ proc[j].pc = "gen127"
    /\ \/ ProcessRuns(j, [proc[j] EXCEPT !.generated_site = SiteOf("template html")], "gen57")
       \/ ProcessRuns(j, [proc[j] EXCEPT !.exc = "generation error"], "main134")

-----------------------------------------------------------------------------
(* deploy_job and VercelDeployer.deploy *)

DepLocals ==
    [pc |-> "idle", job |-> NULL, custom_domain |-> FALSE, pos |-> 0,
     stale |-> FALSE, raised |-> FALSE, remote |-> FALSE, polls |-> <<>>, data |-> None,
     result |-> None, exc |-> NULL, resp |-> None]

\* A request that has been answered: what it asked, the remote calls it
\* made and the answer it got.
Answered(loc, resp) ==
    [loc EXCEPT !.pc = "end", !.pos = 0, !.stale = FALSE, !.raised = FALSE, !.result = None,
                !.exc = NULL, !.resp = resp]

\* Guards that do not look at an existing deployment.
DeployRejectionIgnoresDeployment(jb) ==
    IF jb = None THEN [code |-> 404, detail |-> "Job not found"]
    ELSE IF jb.generated_site = None
    THEN [code |-> 400, detail |-> "Website not yet generated"]
    ELSE None

\* deploy_job's checks before it touches anything (main.py 224-232):
\* the error it raises, or None to go on.
DeployRejection(jb) ==
    IF jb = None THEN [code |-> 404, detail |-> "Job not found"]
    ELSE IF jb.generated_site = None
    THEN [code |-> 400, detail |-> "Website not yet generated"]
    ELSE IF jb.deployment # None
    THEN [code |-> 400, detail |-> "Already deployed"]
    ELSE None

\* A deploy_job step that resumes at pc with locals loc, the job being jb.
DeployRuns(d, jb, loc, pc) ==
    LET j == loc.job
        r == Exec(jb, loc, pc, j \in DOMAIN ws_connections) IN
    /\ jobs' = [jobs EXCEPT ![j] = r.job]
    /\ dep' = [dep EXCEPT ![d] = Notifying(j, r, Answered(r.loc, r.loc.resp))]
    /\ sock' = PushOf(j, r)
    /\ UNCHANGED <<ws_connections, proc, preview, settings, svc, gap, store>>

\* POST /api/jobs/{job_id}/deploy arrives (main.py 218-242).
deploy_job(d, j, domain) ==
    /\ dep[d].pc = "idle"
    /\ \A e \in DeployReqs : DeployNo(e) < DeployNo(d) => dep[e].pc # "idle"
    /\ LET loc == [dep[d] EXCEPT !.job = j, !.custom_domain = domain] IN
       IF DeployRejection(jobs[j]) # None
       THEN /\ dep' = [dep EXCEPT ![d] = Answered(loc, DeployRejection(jobs[j]))]
            /\ UNCHANGED <<jobs, ws_connections, proc, sock, preview, settings, svc, gap, store>>
       ELSE DeployRuns(d, [jobs[j] EXCEPT !.status = "deploying"], loc, "main242")

\* A push of a notification made by deploy_job returns (or raises).
DeployPushReturns(d) ==
    /\ dep[d].pos > 0
    /\ LET j == dep[d].job IN
       IF MorePushes(j, dep[d])
       THEN /\ sock' = Push(sock, Subscribers(j)[dep[d].pos + 1], jobs[j])
            /\ dep' = [dep EXCEPT ![d].pos = @ + 1,
                                   ![d].raised = @ \/ PushRaises(j, dep[d].pos + 1)]
            /\ UNCHANGED <<jobs, ws_connections, proc, preview, settings, svc, gap, store>>
       ELSE \E nxt \in {Succ(dep[d], dep[d].pc)} : DeployRuns(d, jobs[j], dep[d], nxt)

\* deploy() raises exc: deploy_job's except clause takes over (main.py 258).
DeployRaises(d, exc) ==
    DeployRuns(d, jobs[dep[d].job], [dep[d] EXCEPT !.exc = exc], "main260")

\* _ensure_project: the POST returns (deployer.py 184-213).  Every answer
\* leads to a project id (the remote id or the slug) except a transport
\* error or an unreadable body, which raise.
EnsureProjectReturns(d) ==
    /\ dep[d].pc = "dep184"
    /\ \/ DeployRuns(d, jobs[dep[d].job], dep[d], "dep238")  \* 200, or another error
       \/ DeployRuns(d, jobs[dep[d].job], dep[d], "dep202")  \* project_already_exists
       \/ DeployRaises(d, "project request failed")

\* _ensure_project: the GET of the existing project returns (deployer.py 202-213).
GetProjectReturns(d) ==
    /\ dep[d].pc = "dep202"
    /\ \/ DeployRuns(d, jobs[dep[d].job], dep[d], "dep238")
       \/ DeployRaises(d, "project request failed")

\* _create_deployment: the POST returns (deployer.py 238-248).
CreateDeploymentReturns(d) ==
    /\ dep[d].pc = "dep238"
    /\ \/ DeployRuns(d, jobs[dep[d].job], dep[d], "dep259")
       \/ DeployRaises(d, "Deployment failed: rejected")

PollStates == {"BUILDING", "READY", "ERROR", "HTTP_ERROR"}

\* DeploymentResult(...) as deploy() builds it (deployer.py 84-90)
DeploymentResult(data, dns_records) ==
    [deployment_id |-> data.id, url |-> <<"https://", data.url>>,
     status |-> data.readyState, dns_records |-> dns_records]

\* One iteration of _wait_for_ready's loop (deployer.py 258-279), the poll
\* having answered `state`; n polls were made before it.  What the loop does.
_wait_for_ready(n, state) ==
    CASE state = "HTTP_ERROR" -> [do |-> "raise", exc |-> "Failed to check deployment status"]
      [] state = "READY"      -> [do |-> "return", exc |-> NULL]
      [] state = "ERROR"      -> [do |-> "raise", exc |-> "Deployment failed: Unknown error"]
      [] OTHER                -> IF n + 1 < MaxAttempts
                                 THEN [do |-> "poll", exc |-> NULL]
                                 ELSE [do |-> "raise", exc |-> "Deployment timed out"]

\* A status poll returns (deployer.py 259-279, then 71-90 on READY).  The
\* sleep between two polls is folded into the step that makes the next poll.
PollReturns(d) ==
    /\ dep[d].pc = "dep259"
    /\ \E state \in PollStates, u \in Urls :
         LET w == _wait_for_ready(Len(dep[d].polls), state)
             data == [id |-> d, url |-> u, readyState |-> state]
             loc == [dep[d] EXCEPT !.polls = Append(@, state)] IN
         /\ state # "READY" => u = "u1"
         /\ CASE w.do = "raise" ->
                   DeployRuns(d, jobs[loc.job], [loc EXCEPT !.exc = w.exc], "main260")
              [] w.do = "poll" ->
                   DeployRuns(d, jobs[loc.job], loc, "dep259")
              [] w.do = "return" ->
                   IF loc.custom_domain
                   THEN DeployRuns(d, jobs[loc.job], [loc EXCEPT !.data = data], "dep289")
                   ELSE DeployRuns(d, jobs[loc.job],
                                   [loc EXCEPT !.data = data,
                                               !.result = DeploymentResult(data, Nil)],
                                   "main250")

DnsRecords == <<"A @ 76.76.21.21", "CNAME www cname.vercel-dns.com">>

\* _configure_domain: the POST returns (deployer.py 289-305).  Only a
\* non-success status is handled; a transport error and an unreadable body
\* (response.json() raising) propagate out of deploy().
ConfigureDomainReturns(d) ==
    /\ dep[d].pc = "dep289"
    /\ \/ \E dns \in {DnsRecords, Nil} :
            DeployRuns(d, jobs[dep[d].job],
                       [dep[d] EXCEPT !.result = DeploymentResult(dep[d].data, dns)],
                       "main250")
       \/ \E exc \in {"domain request failed", "domain response unreadable"} :
            DeployRaises(d, exc)

\* GET /api/jobs/{job_id}/preview (main.py 205-214)
PreviewAnswer(jb) ==
    IF jb = None THEN [code |-> 404, detail |-> "Job not found"]
    ELSE IF jb.generated_site = None
    THEN [code |-> 400, detail |-> "Website not yet generated"]
    ELSE [code |-> 200, detail |-> jb.generated_site.html]

get_job_preview(j) ==
    /\ preview.state = "idle"
    /\ preview' = [state |-> "end", job |-> j, resp |-> PreviewAnswer(jobs[j])]
    /\ UNCHANGED <<jobs, ws_connections, proc, dep, sock, settings, svc, gap, store>>

-----------------------------------------------------------------------------
(* websocket_job_updates *)

SockInit == [pc |-> "idle", job |-> NULL, open |-> FALSE, last |-> None]

\* A client opens /ws/jobs/{job_id}; the handler awaits accept() (main.py 294).
\* Job ids are random, so a client names a job that exists or an id that
\* never will.
WsConnects(w, j) ==
    /\ sock[w].pc = "idle"
    /\ \A v \in Sockets : SocketNo(v) < SocketNo(w) => sock[v].pc # "idle"
    /\ jobs[j] # None \/ proc[j].pc = "off"
    /\ sock' = [sock EXCEPT ![w] = [pc |-> "accepting", job |-> j,
                                    open |-> TRUE, last |-> None]]
    /\ UNCHANGED <<jobs, ws_connections, proc, dep, preview, settings, svc, gap, store>>

\* accept() returns: register the connection and send the current job
\* (main.py 297-305).
WsAccepted(w) ==
    /\ sock[w].pc = "accepting"
    /\ LET j == sock[w].job IN
       /\ ws_connections' =
            IF j \in DOMAIN ws_connections
            THEN [ws_connections EXCEPT ![j] = Append(@, w)]
            ELSE [k \in DOMAIN ws_connections \cup {j} |->
                    IF k = j THEN <<w>> ELSE ws_connections[k]]
       /\ sock' = IF jobs[j] # None
                  THEN [Push(sock, w, jobs[j]) EXCEPT ![w].pc = "initial"]
                  ELSE [sock EXCEPT ![w].pc = "listening"]
    /\ UNCHANGED <<jobs, proc, dep, preview, settings, svc, gap, store>>

\* A cleanup that removes the connection and keeps the emptied entry.
UnregisteredKeepsEntry(w, j) ==
    [ws_connections EXCEPT ![j] = SelectSeq(@, LAMBDA x : x # w)]

\* list.remove(x) on the list of job j, then `del` of the emptied entry
Unregistered(w, j) ==
    LET old == ws_connections[j]
        new == SelectSeq(old, LAMBDA x : x # w) IN
    IF new = <<>>
    THEN [k \in DOMAIN ws_connections \ {j} |-> ws_connections[k]]
    ELSE [ws_connections EXCEPT ![j] = new]

\* The handler's finally clause (main.py 317-322).  Deleting the emptied
\* list leaves the iterators of running notifications on a dead, empty list.
WsCleanup(w) ==
    LET j == sock[w].job
        reg == Unregistered(w, j)
        dead == j \notin DOMAIN reg IN
    /\ ws_connections' = reg
    /\ sock' = [sock EXCEPT ![w] = [SockInit EXCEPT !.pc = "closed", !.job = j]]
    /\ proc' = [k \in JobIds |->
                  IF dead /\ k = j /\ proc[k].pos > 0
                  THEN [proc[k] EXCEPT !.stale = TRUE] ELSE proc[k]]
    /\ dep' = [d \in DeployReqs |->
                 IF dead /\ dep[d].job = j /\ dep[d].pos > 0
                 THEN [dep[d] EXCEPT !.stale = TRUE] ELSE dep[d]]
    /\ UNCHANGED <<jobs, preview, settings, svc, gap, store>>

\* The send of the first snapshot returns, or raises on a closed connection
\* (main.py 305, 317).
WsInitialSent(w) ==
    /\ sock[w].pc = "initial"
    /\ IF sock[w].open
       THEN /\ sock' = [sock EXCEPT ![w].pc = "listening"]
            /\ UNCHANGED <<jobs, ws_connections, proc, dep, preview, settings, svc, gap, store>>
       ELSE WsCleanup(w)

\* receive_text() raises WebSocketDisconnect (main.py 310-322).  Client
\* messages and the keep-alive ping change nothing that is modelled.
WsDisconnected(w) ==
    /\ sock[w].pc = "listening"
    /\ ~sock[w].open
    /\ WsCleanup(w)

\* The client closes its end.
ClientCloses(w) ==
    /\ sock[w].pc \in {"initial", "listening"}
    /\ sock[w].open
    /\ sock' = [sock EXCEPT ![w].open = FALSE]
    /\ UNCHANGED <<jobs, ws_connections, proc, dep, preview, settings, svc, gap, store>>

-----------------------------------------------------------------------------
(* The system *)

\* A scenario: which job ids are ever created, how many clients connect and
\* deploy, whether a preview is asked for, and the settings.
Processes(nJobs, nSockets, nDeploys, withPreview) ==
    /\ jobs = [j \in JobIds |-> None]
    /\ ws_connections = <<>>
    /\ proc = [j \in JobIds |->
                 [ProcLocals EXCEPT !.pc = IF JobNo(j) <= nJobs THEN "new" ELSE "off"]]
    /\ dep = [d \in DeployReqs |->
                [DepLocals EXCEPT !.pc = IF DeployNo(d) <= nDeploys THEN "idle" ELSE "off"]]
    /\ sock = [w \in Sockets |->
                 [SockInit EXCEPT !.pc = IF SocketNo(w) <= nSockets THEN "idle" ELSE "off"]]
    /\ preview = [state |-> IF withPreview THEN "idle" ELSE "off"]

Scenario(nJobs, nSockets, nDeploys, withPreview, premium) ==
    /\ Processes(nJobs, nSockets, nDeploys, withPreview)
    /\ settings = [twentyfirst_api_key |-> premium, google_places_api_key |-> TRUE,
                   firecrawl_api_key |-> TRUE, apify_api_token |-> TRUE]
    /\ svc = None
    /\ gap = None
    /\ store = None

\* Two subscribers watch a pipeline; one subscriber and one deploy; two
\* deploys of one job; a preview with the premium backend configured.
Init ==
    \/ Scenario(1, 2, 0, FALSE, FALSE)
    \/ Scenario(1, 1, 1, FALSE, FALSE)
    \/ Scenario(1, 0, 2, FALSE, FALSE)
    \/ Scenario(1, 1, 0, TRUE, TRUE)

Next ==
    \/ \E j \in JobIds : create_job(j)
    \/ \E j \in JobIds : process_job(j)
    \/ \E j \in JobIds : ProcessPushReturns(j)
    \/ \E j \in JobIds : ScrapeReturns(j)
    \/ \E j \in JobIds : ExtractReturns(j)
    \/ \E j \in JobIds : FillGapsReturns(j)
    \/ \E j \in JobIds : PremiumReturns(j)
    \/ \E j \in JobIds : GenerateReturns(j)
    \/ \E d \in DeployReqs, j \in JobIds, domain \in BOOLEAN : deploy_job(d, j, domain)
    \/ \E d \in DeployReqs : DeployPushReturns(d)
    \/ \E d \in DeployReqs : EnsureProjectReturns(d)
    \/ \E d \in DeployReqs : GetProjectReturns(d)
    \/ \E d \in DeployReqs : CreateDeploymentReturns(d)
    \/ \E d \in DeployReqs : PollReturns(d)
    \/ \E d \in DeployReqs : ConfigureDomainReturns(d)
    \/ \E j \in JobIds : get_job_preview(j)
    \/ \E w \in Sockets, j \in JobIds : WsConnects(w, j)
    \/ \E w \in Sockets : WsAccepted(w)
    \/ \E w \in Sockets : WsInitialSent(w)
    \/ \E w \in Sockets : WsDisconnected(w)
    \/ \E w \in Sockets : ClientCloses(w)

Spec == Init /\ [][Next]_vars

\* The steps of one job's process_job task.
ProcessStep(j) ==
    \/ process_job(j)
    \/ ProcessPushReturns(j)
    \/ ScrapeReturns(j)
    \/ ExtractReturns(j)
    \/ FillGapsReturns(j)
    \/ PremiumReturns(j)
    \/ GenerateReturns(j)

\* The steps of one deploy_job request after it arrived.
DeployStep(d) ==
    \/ DeployPushReturns(d)
    \/ EnsureProjectReturns(d)
    \/ GetProjectReturns(d)
    \/ CreateDeploymentReturns(d)
    \/ PollReturns(d)
    \/ ConfigureDomainReturns(d)

\* The event loop runs every task that can run, and every connector call,
\* AI call, deployer call and push returns or raises in the end.
Fairness ==
    /\ \A j \in JobIds : WF_vars(ProcessStep(j))
    /\ \A d \in DeployReqs : WF_vars(DeployStep(d))

LiveInit ==
    \/ Scenario(1, 1, 1, FALSE, FALSE)
    \/ Scenario(1, 1, 0, TRUE, TRUE)

LiveSpec == LiveInit /\ [][Next]_vars /\ Fairness

-----------------------------------------------------------------------------
(* Two jobs *)

\* The record of a job whose pipeline has run to its end with nobody
\* subscribed (no gap fill, template generation): what process_job leaves
\* in the store, computed by running it.
CompletedJob ==
    LET scraped   == Exec(NewJob, ProcLocals, "orch72", FALSE)
        extracted == Exec(scraped.job,
                          [scraped.loc EXCEPT !.scrape_result = "scrape_result"],
                          "scr95", FALSE)
        generated == Exec(extracted.job,
                          [extracted.loc EXCEPT !.extracted_data = "profile"],
                          "ai74", FALSE)
        done      == Exec(generated.job,
                          [generated.loc EXCEPT !.generated_site = SiteOf("template html")],
                          "gen57", FALSE)
    IN done.job

\* Both pipelines have completed; clients and deploys are still to come.
AfterRuns(nSockets, nDeploys) ==
    /\ settings = [twentyfirst_api_key |-> FALSE, google_places_api_key |-> TRUE,
                   firecrawl_api_key |-> TRUE, apify_api_token |-> TRUE]
    /\ svc = None
    /\ gap = None
    /\ store = None
    /\ jobs = [j \in JobIds |-> CompletedJob]
    /\ ws_connections = <<>>
    /\ proc = [j \in JobIds |-> Finished(ProcLocals)]
    /\ dep = [d \in DeployReqs |->
                [DepLocals EXCEPT !.pc = IF DeployNo(d) <= nDeploys THEN "idle" ELSE "off"]]
    /\ sock = [w \in Sockets |->
                 [SockInit EXCEPT !.pc = IF SocketNo(w) <= nSockets THEN "idle" ELSE "off"]]
    /\ preview = [state |-> "off"]

\* Two pipelines and a subscriber; two pipelines and a deploy, with the
\* premium backend configured; a deploy and a subscriber once two pipelines
\* have completed.
PairInit ==
    \/ Scenario(2, 1, 0, FALSE, FALSE)
    \/ Scenario(2, 0, 1, FALSE, TRUE)
    \/ AfterRuns(1, 1)

PairNext ==
    \/ \E j \in JobIds : create_job(j)
    \/ \E j \in JobIds : ProcessStep(j)
    \/ \E d \in DeployReqs, j \in JobIds, domain \in BOOLEAN : deploy_job(d, j, domain)
    \/ \E d \in DeployReqs : DeployStep(d)
    \/ \E w \in Sockets, j \in JobIds : WsConnects(w, j)
    \/ \E w \in Sockets : WsAccepted(w)
    \/ \E w \in Sockets : WsInitialSent(w)
    \/ \E w \in Sockets : WsDisconnected(w)
    \/ \E w \in Sockets : ClientCloses(w)

PairSpec == PairInit /\ [][PairNext]_vars

-----------------------------------------------------------------------------
(* The scrape stage on its own: ScraperService.scrape_all with its four     *)
(* connectors (scraper.py).  svc holds the request, the four connector      *)
(* coroutines handed to asyncio.gather and the ScrapeResult.                *)

\* source_names (scraper.py 79): the order of the tasks list as well
Sources == <<"google", "website", "facebook", "instagram">>
SourceSet == {Sources[i] : i \in DOMAIN Sources}

\* stop_after_attempt(...) of each connector's @retry (scraper.py 111, 189,
\* 241, 290)
stop_after_attempt(s) == IF s \in {"google", "website"} THEN 3 ELSE 2

\* A dict: the payload of a source.  An empty dict is falsy in Python.
Dict(keys) == [dict |-> keys]
Payload(s) == Dict({s})
Truthy(d) == d # None /\ d.dict # {}

\* ScrapedSource(source=..., success=..., data=..., error=...)
ScrapedSource(source, success, data, error) ==
    [source |-> source, success |-> success, data |-> data, error |-> error]

Failure(s, error) == ScrapedSource(s, FALSE, None, error)

\* What a finished coroutine left: a ScrapedSource it returned, or the
\* exception it raised.
Returned(r) == [returned |-> r]
Raised(e) == [raised |-> e]
IsException(x) == "raised" \in DOMAIN x

\* _empty_result (scraper.py 103-105)
_empty_result(s) == Failure(s, "Not provided")

\* The request field a source is scraped from (scraper.py 43-67).
Input(s, request) ==
    CASE s = "google"    -> request.location
      [] s = "website"   -> request.website_url
      [] s = "facebook"  -> request.facebook_url
      [] s = "instagram" -> request.instagram_url

\* The credential a connector needs (scraper.py 118, 192, 244, 293).
Credential(s) ==
    CASE s = "google"  -> settings.google_places_api_key
      [] s = "website" -> settings.firecrawl_api_key
      [] OTHER         -> settings.apify_api_token

NotConfigured(s) ==
    CASE s = "google"  -> "Google Places API key not configured"
      [] s = "website" -> "Firecrawl API key not configured"
      [] OTHER         -> "Apify API token not configured"

\* A tasks list that runs every connector, given its input or not.
tasksAllConnectors(request) == [s \in SourceSet |-> "connector"]

\* The tasks list (scraper.py 40-67): the connector of a source whose input
\* is given, _empty_result otherwise.
tasks(request) ==
    [s \in SourceSet |-> IF Input(s, request) # NULL THEN "connector"
                                                     ELSE "_empty_result"]

\* A coroutine of the tasks list before it runs.
Coroutine ==
    [pc |-> "todo", attempt |-> 0, remote |-> FALSE, step |-> 0, exc |-> NULL,
     result |-> None]

Done(c, outcome) == [c EXCEPT !.pc = "done", !.step = 0, !.result = outcome]

\* One attempt of a connector begins: the code before its first remote call
\* (scraper.py 118-127, 192-200, 244-252, 293-319).  "@" is a handle whose
\* user name is empty.
Attempt(s, c, request) ==
    LET a == [c EXCEPT !.attempt = @ + 1, !.exc = NULL] IN
    IF ~Credential(s) THEN Done(a, Returned(Failure(s, NotConfigured(s))))
    ELSE IF s = "instagram" /\ Input(s, request) = "@"
    THEN Done(a, Returned(Failure(s, "Invalid Instagram handle")))
    ELSE [a EXCEPT !.pc = "call", !.step = 1, !.remote = TRUE]

\* An attempt raised e.  tenacity's default retry condition retries on every
\* exception; after the last attempt it raises RetryError (reraise is off).
AttemptRaises(s, c, e) ==
    IF c.attempt < stop_after_attempt(s)
    THEN [c EXCEPT !.pc = "sleep", !.step = 0, !.exc = e]
    ELSE Done([c EXCEPT !.exc = e], Raised("RetryError"))

\* What a remote call can answer.  "status 503" is any non-200 answer;
\* "unreadable" is a body response.json() cannot read or a payload that is
\* no dict; "empty" is a well-formed answer without the business in it.
Answers == {"network error", "unreadable", "status 503", "empty", "data", "empty data"}

\* The payload of a successful answer.
DataOf(s, answer) == IF answer = "data" THEN Payload(s) ELSE Dict({})

\* _scrape_google_places after one of its two GETs answered (scraper.py
\* 127-183).  No status code is looked at: a non-200 answer is read as a
\* body without candidates / without result.
_scrape_google_places(c, answer) ==
    CASE answer = "network error" -> AttemptRaises("google", c, "network error")
      [] answer = "unreadable"    -> AttemptRaises("google", c, "malformed response")
      [] answer \in {"status 503", "empty"} ->
            Done(c, Returned(Failure("google",
                 IF c.step = 1 THEN "Business not found on Google"
                               ELSE "Failed to get place details")))
      [] OTHER ->
            IF c.step = 1
            THEN [c EXCEPT !.step = 2]
            ELSE Done(c, Returned(ScrapedSource("google", TRUE, DataOf("google", answer), NULL)))

\* _scrape_website after its POST answered (scraper.py 200-235)
_scrape_website(c, answer) ==
    CASE answer = "network error" -> AttemptRaises("website", c, "network error")
      [] answer = "status 503" ->
            Done(c, Returned(Failure("website", "Firecrawl error: 503")))
      [] answer = "unreadable"    -> AttemptRaises("website", c, "malformed response")
      [] answer = "empty" ->
            Done(c, Returned(Failure("website", "Unknown Firecrawl error")))
      [] OTHER ->
            Done(c, Returned(ScrapedSource("website", TRUE, DataOf("website", answer), NULL)))

\* _scrape_facebook and _scrape_instagram after their POST answered
\* (scraper.py 252-284, 319-348)
_scrape_apify(s, c, answer) ==
    CASE answer = "network error" -> AttemptRaises(s, c, "network error")
      [] answer = "status 503" -> Done(c, Returned(Failure(s, "Apify error: 503")))
      [] answer = "unreadable"    -> AttemptRaises(s, c, "malformed response")
      [] answer = "empty" ->
            Done(c, Returned(Failure(s,
                 IF s = "facebook" THEN "No data returned from Facebook scrape"
                                   ELSE "No data returned from Instagram scrape")))
      [] OTHER -> Done(c, Returned(ScrapedSource(s, TRUE, DataOf(s, answer), NULL)))

Connector(s, c, answer) ==
    CASE s = "google"  -> _scrape_google_places(c, answer)
      [] s = "website" -> _scrape_website(c, answer)
      [] OTHER         -> _scrape_apify(s, c, answer)

\* A gather without return_exceptions: the first exception of a task leaves
\* gather at once.
gatherPropagating(conn) ==
    [done    |-> \/ \A s \in SourceSet : conn[s].pc = "done"
                 \/ \E s \in SourceSet : conn[s].pc = "done" /\ IsException(conn[s].result),
     raised  |-> IF \E s \in SourceSet : conn[s].pc = "done" /\ IsException(conn[s].result)
                 THEN "RetryError" ELSE NULL,
     results |-> [i \in DOMAIN Sources |-> conn[Sources[i]].result]]

\* asyncio.gather(*tasks, return_exceptions=True) (scraper.py 73): it is
\* done when every task is, an exception a task raised is that task's
\* result, and the results come in the order of the tasks list, whatever
\* the order in which the tasks ended.
gather(conn) ==
    [done    |-> \A s \in SourceSet : conn[s].pc = "done",
     raised  |-> NULL,
     results |-> [i \in DOMAIN Sources |-> conn[Sources[i]].result]]

\* str(e) of an exception: tenacity's RetryError prints the future it wraps.
str(e) == IF e = "RetryError" THEN "RetryError[<Future state=finished raised>]" ELSE e

\* The fan-in loop's treatment of one result (scraper.py 80-89)
Record(name, result) ==
    IF IsException(result) THEN Failure(name, str(result.raised))
    ELSE result.returned

\* A raw_data that takes every successful record, also one without payload.
raw_dataOfSuccesses(sources) ==
    LET kept == {i \in DOMAIN Sources : sources[i].success} IN
    [s \in {Sources[i] : i \in kept} |->
        sources[CHOOSE i \in kept : Sources[i] = s].data]

\* raw_data as the fan-in loop fills it (scraper.py 90-91): a dict from
\* source name to payload
raw_data(sources) ==
    LET kept == {i \in DOMAIN Sources : sources[i].success /\ Truthy(sources[i].data)} IN
    [s \in {Sources[i] : i \in kept} |->
        sources[CHOOSE i \in kept : Sources[i] = s].data]

\* A fan-in that takes the results in another order than the tasks'.
ScrapeResultReversed(results) ==
    LET sources == [i \in DOMAIN Sources |->
                       Record(Sources[i], results[Len(Sources) + 1 - i])] IN
    [sources |-> sources, raw_data |-> raw_data(sources)]

\* ScrapeResult(sources=sources, raw_data=raw_data) (scraper.py 76-101)
ScrapeResult(results) ==
    LET sources == [i \in DOMAIN Sources |-> Record(Sources[i], results[i])] IN
    [sources |-> sources, raw_data |-> raw_data(sources)]

\* The requests: which optional inputs are given.  create_job takes any.
Requests ==
    [business_name : {"Acme"}, location : {NULL, "London"},
     website_url : {NULL, "https://acme.example"},
     facebook_url : {NULL, "https://facebook.com/acme"},
     instagram_url : {NULL, "@acme", "@"}]

Configurations ==
    [twentyfirst_api_key : {FALSE}, google_places_api_key : BOOLEAN,
     firecrawl_api_key : BOOLEAN, apify_api_token : BOOLEAN]

\* scrape_all is called (scraper.py 40-73): the tasks list is built and
\* handed to gather.
scrape_all ==
    /\ svc.pc = "request"
    /\ svc' = [svc EXCEPT !.pc = "gather"]
    /\ UNCHANGED <<jobs, ws_connections, proc, dep, sock, preview, settings, gap, store>>

\* Connectors awaited one after the other: the task of s starts when the
\* sources before it have finished.
TaskRunsInTurn(s) ==
    /\ svc.pc = "gather"
    /\ svc.conn[s].pc = "todo"
    /\ \A i, k \in DOMAIN Sources :
          (Sources[k] = s /\ i < k) => svc.conn[Sources[i]].pc = "done"
    /\ svc' = [svc EXCEPT !.conn[s] =
                 IF tasks(svc.request)[s] = "connector"
                 THEN Attempt(s, svc.conn[s], svc.request)
                 ELSE Done(svc.conn[s], Returned(_empty_result(s)))]
    /\ UNCHANGED <<jobs, ws_connections, proc, dep, sock, preview, settings, gap, store>>

\* The event loop runs the task of source s for the first time.
TaskRuns(s) ==
    /\ svc.pc = "gather"
    /\ svc.conn[s].pc = "todo"
    /\ svc' = [svc EXCEPT !.conn[s] =
                 IF tasks(svc.request)[s] = "connector"
                 THEN Attempt(s, svc.conn[s], svc.request)
                 ELSE Done(svc.conn[s], Returned(_empty_result(s)))]
    /\ UNCHANGED <<jobs, ws_connections, proc, dep, sock, preview, settings, gap, store>>

\* A remote call of the connector of s answers or fails.
CallReturns(s) ==
    /\ svc.pc = "gather"
    /\ svc.conn[s].pc = "call"
    /\ \E answer \in Answers :
         svc' = [svc EXCEPT !.conn[s] = Connector(s, svc.conn[s], answer)]
    /\ UNCHANGED <<jobs, ws_connections, proc, dep, sock, preview, settings, gap, store>>

\* tenacity's wait is over: the connector's body runs again from its top.
Retries(s) ==
    /\ svc.pc = "gather"
    /\ svc.conn[s].pc = "sleep"
    /\ svc' = [svc EXCEPT !.conn[s] = Attempt(s, svc.conn[s], svc.request)]
    /\ UNCHANGED <<jobs, ws_connections, proc, dep, sock, preview, settings, gap, store>>

\* gather returns and the fan-in runs (scraper.py 73-101).  An exception
\* gather raised would leave scrape_all; the coroutines are gone afterwards.
GatherReturns ==
    /\ svc.pc = "gather"
    /\ LET g == gather(svc.conn)
           gone == [s \in SourceSet |-> Coroutine] IN
       /\ g.done
       /\ svc' = IF g.raised # NULL
                 THEN [svc EXCEPT !.pc = "raised", !.exc = g.raised, !.conn = gone]
                 ELSE [svc EXCEPT !.pc = "scraped", !.conn = gone,
                                  !.scrape_result = ScrapeResult(g.results)]
    /\ UNCHANGED <<jobs, ws_connections, proc, dep, sock, preview, settings, gap, store>>

-----------------------------------------------------------------------------
(* The extraction on its own: AIEngineService.extract_business_data         *)
(* (ai_engine.py), called with the ScrapeResult of the scrape stage.        *)

\* What the AI call can do: raise, or answer a text.  The text is a body,
\* bare, inside a ```json fence, or after a fence that is never closed.
AiBodies ==
    {"object", "complete object", "object then prose", "object without keys",
     "object with null contact", "list", "truncated object", "prose"}

AiOutcomes ==
    {[kind |-> "raises", fence |-> NULL, body |-> NULL]}
       \cup [kind : {"content"}, fence : {"none", "json", "unclosed"}, body : AiBodies]

\* The JSON object the AI writes for the business.
AiObject ==
    [business_name |-> "Acme Coffee Ltd", data_quality_score |-> 75,
     sources_used |-> <<"google">>, missing_fields |-> <<"email">>,
     contact |-> "contact"]

\* Python values json.loads returns: a dict (keys to values) or a list
PyDict(d) == [type |-> "dict", items |-> d]
PyList == [type |-> "list", items |-> <<>>]
EmptyDict == PyDict(<<>>)

\* json.loads of a text: the value, or None where it raises JSONDecodeError
loads(body) ==
    CASE body = "object"                   -> PyDict(AiObject)
      [] body = "complete object"          -> PyDict([AiObject EXCEPT !.data_quality_score = 85,
                                                                      !.missing_fields = <<>>])
      [] body = "object without keys"      -> PyDict([tagline |-> "Fresh every day"])
      [] body = "object with null contact" -> PyDict([AiObject EXCEPT !.contact = NULL])
      [] body = "list"                     -> PyList
      [] OTHER                             -> None

\* The text up to its last "}" (content[:last_brace + 1]), NULL without one
UpToLastBrace(body) ==
    CASE body = "object then prose" -> "object"
      [] body = "truncated object"  -> "truncated object"
      [] body \in {"prose", "list"} -> NULL
      [] OTHER                      -> body

\* content[start:end] when the closing fence is missing: find gives -1 and
\* the slice loses the last character of the text.
WithoutLastChar(body) ==
    CASE body \in {"object", "complete object", "object without keys",
                   "object with null contact"}
                                    -> "truncated object"
      [] body = "list"              -> "prose"
      [] body = "object then prose" -> "object then prose"
      [] OTHER                      -> body

\* _parse_json_response (ai_engine.py 236-263): never raises; a text it
\* cannot read, also after cutting at the last brace, gives {}.
_parse_json_response(content) ==
    LET text == IF content.fence = "unclosed" THEN WithoutLastChar(content.body)
                                              ELSE content.body IN
    IF loads(text) # None THEN loads(text)
    ELSE IF UpToLastBrace(text) # NULL /\ loads(UpToLastBrace(text)) # None
    THEN loads(UpToLastBrace(text))
    ELSE EmptyDict

\* dict.get(key, default)
Get(d, key, default) == IF key \in DOMAIN d THEN d[key] ELSE default

\* ExtractedBusinessData: the fields the pipeline decides on
ExtractedBusinessData(business_name, score, sources_used, missing_fields) ==
    [business_name |-> business_name, data_quality_score |-> score,
     sources_used |-> sources_used, missing_fields |-> missing_fields]

\* The minimal profile of the except clause (ai_engine.py 79-86)
MinimalProfile(business_name) ==
    ExtractedBusinessData(business_name, 0, <<>>, <<"all">>)

\* list(scrape_result.raw_data.keys()): the keys in insertion order
Keys(scrape_result) ==
    SelectSeq(Sources, LAMBDA s : s \in DOMAIN scrape_result.raw_data)

\* _to_business_data (ai_engine.py 265-343): the profile, or None where it
\* raises (extracted is no dict, or a nested value is None where a dict is
\* read).
_to_business_data(extracted, scrape_result) ==
    IF extracted.type # "dict" THEN None
    ELSE IF Get(extracted.items, "contact", "contact") = NULL THEN None
    ELSE ExtractedBusinessData(
             Get(extracted.items, "business_name", "Business"),
             Get(extracted.items, "data_quality_score", 50),
             Get(extracted.items, "sources_used", Keys(scrape_result)),
             Get(extracted.items, "missing_fields", <<>>))

\* _build_extraction_prompt (ai_engine.py 132-192): the name and the raw
\* data of every source in raw_data; nothing else depends on raw_data.
_build_extraction_prompt(scrape_result, business_name) ==
    [business_name |-> business_name, sources |-> Keys(scrape_result)]

\* extract_business_data after the AI call ended with `outcome`
\* (ai_engine.py 57-86)
Extracted(outcome, scrape_result, business_name) ==
    IF outcome.kind = "raises" THEN MinimalProfile(business_name)
    ELSE LET profile == _to_business_data(_parse_json_response(outcome), scrape_result) IN
         IF profile = None THEN MinimalProfile(business_name) ELSE profile

\* extract_business_data is called with the ScrapeResult (ai_engine.py 39-58)
\* and awaits the AI call.
extract_business_data ==
    /\ svc.pc = "scraped"
    /\ svc' = [svc EXCEPT !.pc = "ai",
                 !.prompt = _build_extraction_prompt(svc.scrape_result,
                                                     svc.request.business_name)]
    /\ UNCHANGED <<jobs, ws_connections, proc, dep, sock, preview, settings, gap, store>>

\* The AI call returns or raises, and extract_business_data returns.
AiReturns ==
    /\ svc.pc = "ai"
    /\ \E outcome \in AiOutcomes :
         svc' = [svc EXCEPT !.pc = "extracted", !.ai = outcome,
                    !.extracted_data = Extracted(outcome, svc.scrape_result,
                                                 svc.request.business_name)]
    /\ UNCHANGED <<jobs, ws_connections, proc, dep, sock, preview, settings, gap, store>>

-----------------------------------------------------------------------------
(* The two stages as one system *)

\* One scrape_all call for any request under any configuration, followed by
\* the extraction; no job, socket or deploy request is around.
ServiceInit ==
    /\ Processes(0, 0, 0, FALSE)
    /\ settings \in Configurations
    /\ \E request \in Requests :
         svc = [pc |-> "request", request |-> request,
                conn |-> [s \in SourceSet |-> Coroutine],
                scrape_result |-> None, exc |-> NULL, prompt |-> None,
                ai |-> None, extracted_data |-> None]
    /\ gap = None
    /\ store = None

ServiceNext ==
    \/ scrape_all
    \/ \E s \in SourceSet : TaskRuns(s)
    \/ \E s \in SourceSet : CallReturns(s)
    \/ \E s \in SourceSet : Retries(s)
    \/ GatherReturns
    \/ extract_business_data
    \/ AiReturns

ServiceSpec == ServiceInit /\ [][ServiceNext]_vars

-----------------------------------------------------------------------------
(* The gap-fill stage on its own: AIEngineService.fill_gaps with            *)
(* _merge_gap_data (ai_engine.py).  gap.data is the ExtractedBusinessData   *)
(* object the caller passes: the merge assigns to its attributes in place,  *)
(* gap.given is its value when fill_gaps was called.                        *)

\* How often fill_gaps is applied to its own result.
MaxCalls == 2

TextFields == {"tagline", "description_short", "description_long"}
ListFields == {"services", "unique_selling_points"}

\* Service(name=...) (schemas.py 89-94)
Service(name) == [name |-> name]

BusinessHours == [monday |-> "9am - 5pm"]
ContactInfo == [phone |-> "020 7946 0000"]

\* The missing_fields lists the extraction AI writes: names of attributes,
\* of nested fields ("email" is a field of contact) and the "all" of the
\* minimal profile.
MissingFieldLists ==
    {<<>>, <<"all">>, <<"tagline", "email">>, <<"services", "hours">>}

\* data_quality_score is an int without bounds (schemas.py 141) that
\* _to_business_data copies from the AI's answer (ai_engine.py 340).
Scores == {0, 50, 70, 90, 100, 150}

\* The profiles extraction hands to fill_gaps.
Profiles ==
    [business_name : {"Acme"},
     tagline : {NULL, "Old tagline"},
     description_short : {NULL, "Old short"},
     description_long : {NULL, "Old long"},
     services : {<<>>, <<Service("Old service")>>},
     unique_selling_points : {<<>>, <<"Old USP">>},
     contact : {ContactInfo},
     hours : {None, BusinessHours},
     data_quality_score : Scores,
     missing_fields : MissingFieldLists]

\* An item of the "services" list of the AI's answer: a JSON object with a
\* name (null makes Service(...) raise a ValidationError) or a bare string.
ServiceItem(isDict, name) == [isDict |-> isDict, name |-> name]

\* What _parse_json_response returns for the gap-fill answer: a dict (the
\* empty one for a text it cannot read) or a list.
GapData ==
    {EmptyDict, PyList,
     PyDict([tagline |-> "New tagline", description_short |-> "New short",
             description_long |-> "New long",
             services |-> <<ServiceItem(TRUE, "New service"), ServiceItem(TRUE, "Other service")>>,
             unique_selling_points |-> <<"New USP">>]),
     PyDict([tagline |-> "", services |-> <<ServiceItem(TRUE, "New service"),
                                             ServiceItem(FALSE, "Another")>>]),
     PyDict([tagline |-> "New tagline", description_long |-> "New long",
             services |-> <<ServiceItem(TRUE, NULL)>>,
             unique_selling_points |-> <<"New USP">>])}

GapOutcomes ==
    {[kind |-> "raises", gap_data |-> None]}
       \cup [kind : {"content"}, gap_data : GapData]

\* The guard of fill_gaps (ai_engine.py 99): nothing to do.
NothingToFill(data) ==
    data.data_quality_score >= 70 /\ data.missing_fields = <<>>

\* A text rule that takes the AI's value whatever the profile holds.
FillTextAlways(data, g, field) ==
    IF Get(g, field, NULL) \notin {NULL, ""}
    THEN [data EXCEPT ![field] = g[field]] ELSE data

\* `if gap_data.get(f) and not data.f: data.f = gap_data[f]` for a text
\* field (ai_engine.py 353-360)
FillText(data, g, field) ==
    IF Get(g, field, NULL) \notin {NULL, ""} /\ data[field] = NULL
    THEN [data EXCEPT ![field] = g[field]] ELSE data

\* The dict items of the answer's services (ai_engine.py 364-372)
DictItems(g) == SelectSeq(Get(g, "services", <<>>), LAMBDA s : s.isDict)

\* Service(name=s.get("name", "Service"), ...) raises for a name that is
\* no string.
ServicesRaise(g) == \E i \in DOMAIN DictItems(g) : DictItems(g)[i].name = NULL

\* ai_engine.py 363-374: the AI's services replace a shorter list
FillServices(data, g) ==
    IF Len(DictItems(g)) > Len(data.services)
    THEN [data EXCEPT !.services =
             [i \in DOMAIN DictItems(g) |-> Service(DictItems(g)[i].name)]]
    ELSE data

\* ai_engine.py 377-378
FillUsps(data, g) ==
    IF Get(g, "unique_selling_points", <<>>) # <<>> /\ data.unique_selling_points = <<>>
    THEN [data EXCEPT !.unique_selling_points = g.unique_selling_points]
    ELSE data

\* bool(getattr(data, f, None)) for a name f of missing_fields
AttrTruthy(data, f) ==
    CASE f \in TextFields -> data[f] # NULL
      [] f \in ListFields -> data[f] # <<>>
      [] f = "hours"      -> data.hours # None
      [] OTHER            -> FALSE

Min(a, b) == IF a < b THEN a ELSE b

\* ai_engine.py 380-382: the score bonus, and missing_fields keeps the names
\* f for which getattr(data, f, None) is truthy
Recalculate(data) ==
    [data EXCEPT !.data_quality_score = Min(100, @ + 15),
                 !.missing_fields = SelectSeq(@, LAMBDA f : AttrTruthy(data, f))]

\* _merge_gap_data (ai_engine.py 345-384) on the object `data`: the object
\* as the call leaves it, and whether the call raised.  gap_data.get raises
\* at once for a list; Service(...) raises after the text fields were
\* assigned.
_merge_gap_data(data, gap_data) ==
    IF gap_data.type # "dict" THEN [data |-> data, raised |-> TRUE]
    ELSE LET g == gap_data.items
             texts == FillText(FillText(FillText(data, g, "tagline"),
                                        g, "description_short"),
                               g, "description_long") IN
         IF ServicesRaise(g) THEN [data |-> texts, raised |-> TRUE]
         ELSE [data |-> Recalculate(FillUsps(FillServices(texts, g), g)),
               raised |-> FALSE]

\* A fill_gaps without its guard.
fill_gapsAlwaysAsks(gp, data) ==
    [gp EXCEPT !.pc = "ai", !.n = @ + 1, !.given = data, !.data = data,
               !.ai = None, !.calls = 1, !.merged = FALSE, !.result = None]

\* fill_gaps is called with `data` (ai_engine.py 88-108): it returns data
\* at once or awaits the AI call.
fill_gaps(gp, data) ==
    IF NothingToFill(data)
    THEN [gp EXCEPT !.pc = "returned", !.n = @ + 1, !.given = data, !.data = data,
                    !.ai = None, !.calls = 0, !.merged = FALSE, !.result = data]
    ELSE [gp EXCEPT !.pc = "ai", !.n = @ + 1, !.given = data, !.data = data,
                    !.ai = None, !.calls = 1, !.merged = FALSE, !.result = None]

\* A caller applies fill_gaps: to the extracted profile, then to what
\* fill_gaps returned.
FillGapsCalled ==
    /\ gap.pc \in {"data", "returned"}
    /\ gap.n < MaxCalls
    /\ gap' = fill_gaps(gap, IF gap.pc = "data" THEN gap.data ELSE gap.result)
    /\ UNCHANGED <<jobs, ws_connections, proc, dep, sock, preview, settings, svc, store>>

\* The gap-fill AI call returns or raises, the answer is merged and
\* fill_gaps returns data (ai_engine.py 108-130): the object, whatever the
\* merge has done to it before it raised.
GapAiReturns ==
    /\ gap.pc = "ai"
    /\ \E outcome \in GapOutcomes :
         LET m == IF outcome.kind = "raises" THEN [data |-> gap.data, raised |-> TRUE]
                  ELSE _merge_gap_data(gap.data, outcome.gap_data) IN
         gap' = [gap EXCEPT !.pc = "returned", !.ai = outcome, !.data = m.data,
                            !.merged = ~m.raised, !.result = m.data]
    /\ UNCHANGED <<jobs, ws_connections, proc, dep, sock, preview, settings, svc, store>>

GapInit ==
    /\ Processes(0, 0, 0, FALSE)
    /\ settings \in {[twentyfirst_api_key |-> FALSE, google_places_api_key |-> TRUE,
                      firecrawl_api_key |-> TRUE, apify_api_token |-> TRUE]}
    /\ svc = None
    /\ store = None
    /\ \E data \in Profiles :
         gap = [pc |-> "data", n |-> 0, given |-> None, data |-> data, ai |-> None,
                calls |-> 0, merged |-> FALSE, result |-> None]

GapNext ==
    \/ FillGapsCalled
    \/ GapAiReturns

GapSpec == GapInit /\ [][GapNext]_vars

-----------------------------------------------------------------------------
(* The job store on its own: JobStore (job_store.py).  store._jobs is the   *)
(* dict as the list of its values in insertion order, store.op the last     *)
(* operation with its arguments and its answer.                             *)

\* created_at values, page numbers and page sizes of the calls studied
MaxTime == 2
MaxPage == 3
MaxPageSize == 2

StoreIds == {"a", "b", "c"}

\* The Job objects callers pass to create and update: the fields list and
\* count read.
StoreJobs ==
    [id : StoreIds, status : {"pending", "completed"}, created_at : 1..MaxTime]

IdsOf(_jobs) == {_jobs[i].id : i \in DOMAIN _jobs}

\* self._jobs.get(job_id) (job_store.py 26)
Lookup(_jobs, id) ==
    IF id \in IdsOf(_jobs)
    THEN _jobs[CHOOSE i \in DOMAIN _jobs : _jobs[i].id = id]
    ELSE None

\* An assignment that adds the job as a further record.
SetItemAppends(_jobs, job) == Append(_jobs, job)

\* self._jobs[job.id] = job (job_store.py 21, 31): a dict keeps one value
\* per key, at the place where the key was first inserted
SetItem(_jobs, job) ==
    IF job.id \in IdsOf(_jobs)
    THEN [i \in DOMAIN _jobs |-> IF _jobs[i].id = job.id THEN job ELSE _jobs[i]]
    ELSE Append(_jobs, job)

\* del self._jobs[job_id] (job_store.py 37)
DelItem(_jobs, id) == SelectSeq(_jobs, LAMBDA j : j.id # id)

\* `if status: jobs = [j for j in jobs if j.status == status]`
\* (job_store.py 51-52, 64-66); every JobStatus value is a non-empty string
Filtered(_jobs, status) ==
    IF status = NULL THEN _jobs ELSE SelectSeq(_jobs, LAMBDA j : j.status = status)

\* jobs.sort(key=lambda j: j.created_at, reverse=True) (job_store.py 55):
\* a stable sort, jobs of equal created_at keep their order
RECURSIVE SortedFrom(_, _)
SortedFrom(jobList, t) ==
    IF t < 1 THEN <<>>
    ELSE SelectSeq(jobList, LAMBDA j : j.created_at = t) \o SortedFrom(jobList, t - 1)

sort(jobList) == SortedFrom(jobList, MaxTime)

\* jobs[start:end] for 0 <= start <= end
Slice(jobList, start, end) ==
    [i \in 1..(Min(end, Len(jobList)) - Min(start, Len(jobList))) |-> jobList[start + i]]

\* A list that takes the page number as 0-indexed.
listFromPageZero(_jobs, page, page_size, status) ==
    Slice(sort(Filtered(_jobs, status)), page * page_size, page * page_size + page_size)

\* JobStore.list (job_store.py 41-60)
list(_jobs, page, page_size, status) ==
    Slice(sort(Filtered(_jobs, status)),
          (page - 1) * page_size, (page - 1) * page_size + page_size)

\* JobStore.count (job_store.py 62-66)
count(_jobs, status) == Len(Filtered(_jobs, status))

Op(name, job, id, args, answer) ==
    [name |-> name, job |-> job, id |-> id, args |-> args, answer |-> answer]

\* JobStore.create (job_store.py 19-22)
create(job) ==
    /\ store' = [_jobs |-> SetItem(store._jobs, job),
                 op |-> Op("create", job, job.id, None, None)]
    /\ UNCHANGED <<jobs, ws_connections, proc, dep, sock, preview, settings, svc, gap>>

\* JobStore.update (job_store.py 28-32)
update(job) ==
    /\ store' = [_jobs |-> SetItem(store._jobs, job),
                 op |-> Op("update", job, job.id, None, None)]
    /\ UNCHANGED <<jobs, ws_connections, proc, dep, sock, preview, settings, svc, gap>>

\* JobStore.delete (job_store.py 34-39)
delete(id) ==
    /\ store' = IF id \in IdsOf(store._jobs)
                THEN [_jobs |-> DelItem(store._jobs, id),
                      op |-> Op("delete", None, id, None, [bool |-> TRUE])]
                ELSE [store EXCEPT !.op = Op("delete", None, id, None, [bool |-> FALSE])]
    /\ UNCHANGED <<jobs, ws_connections, proc, dep, sock, preview, settings, svc, gap>>

\* GET /api/jobs (main.py 269-284): job_store.list, then job_store.count
list_jobs(page, page_size, status) ==
    /\ store' = [store EXCEPT !.op =
                   Op("list_jobs", None, NULL,
                      [page |-> page, page_size |-> page_size, status |-> status],
                      [jobs |-> list(store._jobs, page, page_size, status),
                       total |-> count(store._jobs, status)])]
    /\ UNCHANGED <<jobs, ws_connections, proc, dep, sock, preview, settings, svc, gap>>

StoreInit ==
    /\ Processes(0, 0, 0, FALSE)
    /\ settings \in {[twentyfirst_api_key |-> FALSE, google_places_api_key |-> TRUE,
                      firecrawl_api_key |-> TRUE, apify_api_token |-> TRUE]}
    /\ svc = None
    /\ gap = None
    /\ store = [_jobs |-> <<>>, op |-> Op("__init__", None, NULL, None, None)]

StoreNext ==
    \/ \E job \in StoreJobs : create(job)
    \/ \E job \in StoreJobs : update(job)
    \/ \E id \in StoreIds : delete(id)
    \/ \E page \in 1..MaxPage, page_size \in 1..MaxPageSize,
          status \in {NULL, "pending", "completed"} : list_jobs(page, page_size, status)

StoreSpec == StoreInit /\ [][StoreNext]_vars

-----------------------------------------------------------------------------
(* One pipeline run: WebsiteGeneratorOrchestrator.run (orchestrator.py       *)
(* 71-133) over the connectors and the extraction above, followed by the    *)
(* success tail of process_job.  The progress callbacks are left out.       *)

\* `if extracted_data.data_quality_score < 70 or extracted_data.missing_fields`
\* (orchestrator.py 102), on the profile itself
GapsToFill(data) == data.data_quality_score < 70 \/ data.missing_fields # <<>>

\* The profile after a gap fill that filled everything.
FilledProfile(data) ==
    [data EXCEPT !.data_quality_score = 90, !.missing_fields = <<>>]

OrchestrationResult(scrape_result, extracted_data, generated_site) ==
    [scrape_result |-> scrape_result, extracted_data |-> extracted_data,
     generated_site |-> generated_site]

\* fill_gaps is called and awaits its AI call (orchestrator.py 102-107).
FillGapsStarts ==
    /\ svc.pc = "extracted"
    /\ GapsToFill(svc.extracted_data)
    /\ svc' = [svc EXCEPT !.pc = "gap", !.calls = Append(@, "fill_gaps")]
    /\ UNCHANGED <<jobs, ws_connections, proc, dep, sock, preview, settings, gap, store>>

\* fill_gaps returns the profile, filled or as it was (ai_engine.py 107-130).
FillGapsEnds ==
    /\ svc.pc = "gap"
    /\ \E data \in {svc.extracted_data, FilledProfile(svc.extracted_data)} :
         svc' = [svc EXCEPT !.pc = "filled", !.extracted_data = data]
    /\ UNCHANGED <<jobs, ws_connections, proc, dep, sock, preview, settings, gap, store>>

\* generate is called and awaits its AI call (orchestrator.py 115-119).
generate ==
    /\ \/ svc.pc = "filled"
       \/ svc.pc = "extracted" /\ ~GapsToFill(svc.extracted_data)
    /\ svc' = [svc EXCEPT !.pc = "generating", !.calls = Append(@, "generate")]
    /\ UNCHANGED <<jobs, ws_connections, proc, dep, sock, preview, settings, gap, store>>

\* The generation call returns and run returns its result (orchestrator.py
\* 127-133), or it raises and the exception leaves run.
GenerationEnds ==
    /\ svc.pc = "generating"
    /\ \/ svc' = [svc EXCEPT !.pc = "returned",
                     !.generated_site = SiteOf("template html"),
                     !.result = OrchestrationResult(svc.scrape_result, svc.extracted_data,
                                                    SiteOf("template html"))]
       \/ svc' = [svc EXCEPT !.pc = "raised", !.exc = "generation error"]
    /\ UNCHANGED <<jobs, ws_connections, proc, dep, sock, preview, settings, gap, store>>

\* process_job's success tail records the results in the job (main.py 124-128).
ResultsRecorded ==
    /\ svc.pc = "returned"
    /\ svc' = [svc EXCEPT !.pc = "recorded", !.job = ProcessSucceeds(@, svc.result)]
    /\ UNCHANGED <<jobs, ws_connections, proc, dep, sock, preview, settings, gap, store>>

\* One run for a request that names every source, with every connector
\* configured.
RunInit ==
    /\ Processes(0, 0, 0, FALSE)
    /\ settings = [twentyfirst_api_key |-> FALSE, google_places_api_key |-> TRUE,
                   firecrawl_api_key |-> TRUE, apify_api_token |-> TRUE]
    /\ svc = [pc |-> "request",
              request |-> [business_name |-> "Acme", location |-> "London",
                           website_url |-> "https://acme.example",
                           facebook_url |-> "https://facebook.com/acme",
                           instagram_url |-> "@acme"],
              conn |-> [s \in SourceSet |-> Coroutine],
              scrape_result |-> None, exc |-> NULL, prompt |-> None,
              ai |-> None, extracted_data |-> None, generated_site |-> None,
              result |-> None, job |-> NewJob, calls |-> <<>>]
    /\ gap = None
    /\ store = None

RunNext ==
    \/ ServiceNext
    \/ FillGapsStarts
    \/ FillGapsEnds
    \/ generate
    \/ GenerationEnds
    \/ ResultsRecorded

RunSpec == RunInit /\ [][RunNext]_vars

-----------------------------------------------------------------------------
(* Properties *)

Created == {j \in JobIds : jobs[j] # None}

PipelineErrors == {<<"generation error">>}

\* The step is one of process_job's on job j (every step of a deploy_job
\* request changes dep; create_job and the socket steps leave the job alone).
ByProcessJob(j) == jobs[j] # None /\ jobs'[j] # jobs[j] /\ dep' = dep

StatusOrder == <<"pending", "scraping", "extracting", "generating", "completed">>

Successor(st) ==
    IF \E i \in 1..4 : StatusOrder[i] = st
    THEN StatusOrder[(CHOOSE i \in 1..4 : StatusOrder[i] = st) + 1]
    ELSE NULL

\* C1: during a pipeline run the status advances pending -> scraping ->
\* extracting -> generating -> completed one stage at a time (or to failed).
C1_StatusAdvancesStageByStage ==
    [][\A j \in JobIds :
         (ByProcessJob(j) /\ jobs'[j].status # jobs[j].status)
            => jobs'[j].status \in {Successor(jobs[j].status), "failed"}]_vars

\* C2: every accepted job ends up completed or failed: process_job always
\* returns, and when it has returned the job is in no pipeline stage.
C2_EveryJobEndsCompletedOrFailed ==
    \A j \in JobIds :
       /\ (jobs[j] # None)
             ~> (jobs[j] # None /\ jobs[j].status \in {"completed", "failed"})
       /\ (jobs[j] # None) ~> (proc[j].pc = "end")
       /\ [](proc[j].pc = "end" =>
               jobs[j].status \notin {"pending", "scraping", "extracting", "generating"})

\* a pipeline that failed in front of a subscriber has returned
C2_Witness ==
    \E j \in JobIds, w \in Sockets :
       /\ proc[j].pc = "end" /\ jobs[j].status = "failed"
       /\ sock[w].pc = "listening" /\ sock[w].job = j /\ sock[w].last # None

\* The live subscribers of job j: registered, first snapshot sent, not closed.
Listening(j) ==
    {w \in Sockets : sock[w].pc = "listening" /\ sock[w].open /\ sock[w].job = j}

\* C3: when an exception escaped the pipeline, the job is stored failed with
\* the exception's message and every subscriber got a failed snapshot.
C3_FailureStoredAndPushed ==
    \A j \in JobIds :
       (proc[j].pc = "end" /\ proc[j].exc # NULL) =>
          /\ jobs[j].status = "failed"
          /\ jobs[j].error = <<proc[j].exc>>
          /\ \A w \in Listening(j) :
                sock[w].last # None /\ sock[w].last.status = "failed"

\* C4: error is non-null exactly when the status is failed.
C4_ErrorIffFailed ==
    \A j \in Created : (jobs[j].error # Nil) <=> (jobs[j].status = "failed")

\* C5: failed is absorbing: no step takes a failed job to another status.
C5_FailedIsAbsorbing ==
    [][\A j \in JobIds :
         (jobs[j] # None /\ jobs[j].status = "failed") => jobs'[j].status = "failed"]_vars

DeployerCalls == {"dep184", "dep202", "dep238", "dep259", "dep289"}

Deployed(j) ==
    {d \in DeployReqs : dep[d].pc = "end" /\ dep[d].job = j /\ dep[d].resp.code = 200}

\* C6: a job is deployed at most once: at most one request of a job gets a
\* DeploymentResult, no two requests of a job are inside the deployer
\* together, and a deployment that is set is never replaced.
C6_DeployedAtMostOnce ==
    /\ [](\A j \in JobIds :
            /\ Cardinality(Deployed(j)) <= 1
            /\ Cardinality({d \in DeployReqs :
                              dep[d].job = j /\ dep[d].pc \in DeployerCalls}) <= 1)
    /\ [][\A j \in JobIds :
            (jobs[j] # None /\ jobs[j].deployment # None)
               => jobs'[j].deployment = jobs[j].deployment]_vars

\* The request d arrives in this step.
Arrives(d) == dep[d].pc = "idle" /\ dep'[d].pc # "idle"

\* Nothing but the request's own answer changes in this step.
NothingElseChanges ==
    /\ jobs' = jobs /\ sock' = sock /\ proc' = proc
    /\ ws_connections' = ws_connections

\* C7: a preview or deploy of a job without a generated site, and a deploy of
\* a deployed job, is answered with an error at once: no remote call, no
\* change of the job, no notification.
C7_RejectionsChangeNothing ==
    [][/\ \A d \in DeployReqs :
            LET j == dep'[d].job IN
            (/\ Arrives(d)
             /\ jobs[j] # None
             /\ jobs[j].generated_site = None \/ jobs[j].deployment # None)
               => /\ dep'[d].pc = "end"
                  /\ dep'[d].resp.code = 400
                  /\ ~dep'[d].remote
                  /\ NothingElseChanges
       /\ LET j == preview'.job IN
            (/\ preview.state = "idle" /\ preview'.state = "end"
             /\ jobs[j] # None
             /\ jobs[j].generated_site = None)
               => /\ preview'.resp.code = 400
                  /\ dep' = dep
                  /\ NothingElseChanges]_vars

\* a repeated deploy was turned down
C7_Witness ==
    \E d \in DeployReqs :
       /\ dep[d].pc = "end"
       /\ dep[d].resp = [code |-> 400, detail |-> "Already deployed"]
       /\ jobs[dep[d].job].deployment # None

\* a preview was turned down while a subscriber was listening
C7_WitnessPreview ==
    /\ preview.state = "end" /\ preview.resp.code = 400
    /\ jobs[preview.job] # None
    /\ Listening(preview.job) # {}

\* The request d is answered in this step.
Ends(d) == dep[d].pc \notin {"off", "idle", "end"} /\ dep'[d].pc = "end"

Last(seq) == seq[Len(seq)]

\* C8: when the deployer raises, the job ends failed with the reason as its
\* error, no deployment, its site kept, the failed snapshot pushed, and the
\* caller gets the reason.
C8_DeployFailureReported ==
    [][\A d \in DeployReqs :
         LET j == dep[d].job IN
         (Ends(d) /\ dep'[d].resp.code # 200) =>
            /\ dep'[d].resp.code = 500
            /\ jobs'[j].status = "failed"
            /\ jobs'[j].error = <<"Deployment failed: ", dep'[d].resp.detail>>
            /\ jobs'[j].deployment = None
            /\ jobs'[j].generated_site = jobs[j].generated_site
            /\ jobs'[j].generated_site # None
            /\ \A w \in Listening(j) :
                  sock[w].last # None /\ sock[w].last.status = "failed"]_vars

Building(p) == \A i \in 1..Len(p) : p[i] = "BUILDING"

\* C9: polling makes at most max_attempts polls and none after READY or
\* ERROR; it times out exactly when all max_attempts polls saw a non-terminal
\* state; READY makes the deploy succeed with that poll's url and state, and
\* without READY the deploy fails and the job becomes failed.
C9_PollingDecidesTheDeploy ==
    /\ [](\A d \in DeployReqs :
            LET p == dep[d].polls IN
            /\ Len(p) <= MaxAttempts
            /\ \A i \in 1..(Len(p) - 1) : p[i] = "BUILDING"
            /\ (dep[d].pc = "end" /\ p # <<>>) =>
                  /\ (dep[d].resp.detail = "Deployment timed out")
                        <=> (Len(p) = MaxAttempts /\ Building(p))
                  /\ (Last(p) = "READY") <=> (dep[d].resp.code = 200))
    /\ [][\A d \in DeployReqs :
            LET j == dep[d].job
                p == dep'[d].polls IN
            (Ends(d) /\ p # <<>>) =>
               IF Last(p) = "READY"
               THEN /\ jobs'[j].deployment # None
                    /\ jobs'[j].deployment.url = <<"https://", dep'[d].data.url>>
                    /\ jobs'[j].deployment.status = "READY"
               ELSE jobs'[j].status = "failed"]_vars

\* C10: with a custom domain asked for and READY reached, no failure of the
\* domain registration fails the deployment: the request succeeds and the
\* job ends completed.
C10_DomainFailureIsNotFatal ==
    [][\A d \in DeployReqs :
         LET j == dep[d].job IN
         (/\ Ends(d)
          /\ dep'[d].custom_domain
          /\ dep'[d].polls # <<>>
          /\ Last(dep'[d].polls) = "READY")
            => /\ dep'[d].resp.code = 200
               /\ jobs'[j].status = "completed"
               /\ jobs'[j].deployment # None]_vars

\* C11: a later stage's result is stored only with all earlier ones: a
\* generated site only with extracted data, extracted data only with a scrape
\* result, a deployment only with a generated site.
C11_ResultsInStageOrder ==
    \A j \in Created :
       /\ jobs[j].generated_site # None => jobs[j].extracted_data # NULL
       /\ jobs[j].extracted_data # NULL => jobs[j].scrape_result # NULL
       /\ jobs[j].deployment # None => jobs[j].generated_site # None

\* a job that went through every stage and was deployed
C11_Witness ==
    \E j \in Created :
       /\ jobs[j].deployment # None
       /\ jobs[j].scrape_result # NULL
       /\ jobs[j].status = "completed"

\* The steps of the coroutine of source s.
ConnectorStep(s) == TaskRuns(s) \/ CallReturns(s) \/ Retries(s)

AllDone == \A s \in SourceSet : svc.conn[s].pc = "done"

\* C12: whichever connectors fail, by a failure record or by raising, the
\* others are neither cancelled nor held up, gather waits for all four, and
\* scrape_all returns a ScrapeResult and does not raise.
C12_ConnectorFailuresStayLocal ==
    /\ [](/\ svc.pc # "raised"
          /\ svc.pc = "gather" =>
                /\ \A s \in SourceSet :
                      svc.conn[s].pc # "done" => ENABLED ConnectorStep(s)
                /\ AllDone => ENABLED GatherReturns
          /\ svc.pc = "scraped" =>
                /\ svc.scrape_result # None
                /\ Len(svc.scrape_result.sources) = Len(Sources))
    /\ [][(svc.pc = "gather" /\ svc'.pc # "gather") => AllDone]_vars

\* scrape_all returned although a connector raised and another one failed
\* with a record, next to one that succeeded
C12_Witness ==
    /\ svc.pc = "scraped"
    /\ \E i, k, n \in DOMAIN Sources :
         /\ svc.scrape_result.sources[i].error = str("RetryError")
         /\ svc.scrape_result.sources[k].error = "Firecrawl error: 503"
         /\ svc.scrape_result.sources[n].success

\* C13: the sources list of every ScrapeResult has exactly four records,
\* tagged google, website, facebook, instagram in this order, whatever the
\* connectors did and in whatever order they ended.
C13_SourcesInFixedOrder ==
    svc.pc = "scraped" =>
       /\ DOMAIN svc.scrape_result.sources = DOMAIN Sources
       /\ \A i \in DOMAIN Sources : svc.scrape_result.sources[i].source = Sources[i]

\* a result whose second record stands for a connector that raised, between
\* a success and a source that was not asked for
C13_Witness ==
    /\ svc.pc = "scraped"
    /\ svc.scrape_result.sources[1].success
    /\ svc.scrape_result.sources[2].error = str("RetryError")
    /\ svc.scrape_result.sources[3].error = "Not provided"

\* The payload a record carries, if it carries one that is not empty.
HasPayload(rec) == rec.success /\ rec.data # None /\ rec.data.dict # {}

\* C14: raw_data has a key for a source exactly when the source's record is
\* a success with a non-empty payload, and the value is that payload; four
\* such records give exactly the four keys.
C14_RawDataOfNonEmptySuccesses ==
    svc.pc = "scraped" =>
       LET r == svc.scrape_result IN
       /\ DOMAIN r.raw_data \subseteq SourceSet
       /\ \A i \in DOMAIN Sources :
             /\ (Sources[i] \in DOMAIN r.raw_data) <=> HasPayload(r.sources[i])
             /\ Sources[i] \in DOMAIN r.raw_data
                   => r.raw_data[Sources[i]] = r.sources[i].data
       /\ (\A i \in DOMAIN Sources : HasPayload(r.sources[i]))
             => DOMAIN r.raw_data = SourceSet

\* a result with a payload, a success without payload and a failure: only
\* the first is in raw_data
C14_Witness ==
    /\ svc.pc = "scraped"
    /\ \E i, k, n \in DOMAIN Sources :
         /\ HasPayload(svc.scrape_result.sources[i])
         /\ svc.scrape_result.sources[k].success
         /\ ~HasPayload(svc.scrape_result.sources[k])
         /\ ~svc.scrape_result.sources[n].success
         /\ DOMAIN svc.scrape_result.raw_data = {Sources[i]}

\* C15: a connector never raises: whatever went wrong, and after its last
\* retry too, it returns a ScrapedSource, a failure with its reason when it
\* has no data.
C15_ConnectorsNeverRaise ==
    \A s \in SourceSet :
       svc.conn[s].pc = "done" =>
          /\ ~IsException(svc.conn[s].result)
          /\ svc.conn[s].result.returned.source = s
          /\ \/ svc.conn[s].result.returned.success
             \/ svc.conn[s].result.returned.error # NULL

\* The request names the business and its location, nothing else.
OnlyLocation(request) ==
    /\ request.location # NULL
    /\ \A s \in SourceSet \ {"google"} : Input(s, request) = NULL

\* C16: a source whose input the request lacks gets the failure record
\* "Not provided" without any attempt, retry or remote call, and the scrape
\* stage completes all the same; with only name and location, google is the
\* one source attempted.
C16_MissingInputsAreNotProvided ==
    /\ svc.pc # "raised"
    /\ \A i \in DOMAIN Sources :
          LET s == Sources[i]
              c == svc.conn[s] IN
          Input(s, svc.request) = NULL =>
             /\ c.attempt = 0 /\ ~c.remote /\ c.pc \in {"todo", "done"}
             /\ c.pc = "done" => c.result = Returned(_empty_result(s))
             /\ svc.pc = "scraped" =>
                   svc.scrape_result.sources[i] = Failure(s, "Not provided")
    /\ (OnlyLocation(svc.request) /\ svc.pc = "gather" /\ AllDone) =>
          {s \in SourceSet : svc.conn[s].attempt > 0} = {"google"}
    /\ (OnlyLocation(svc.request) /\ svc.pc = "scraped") =>
          svc.scrape_result.sources[1].error # "Not provided"

\* name and location only: google was scraped, the three others are
\* "Not provided", and scrape_all has returned
C16_Witness ==
    /\ svc.pc = "scraped"
    /\ OnlyLocation(svc.request)
    /\ svc.scrape_result.sources[1].success
    /\ \A i \in 2..Len(Sources) :
          svc.scrape_result.sources[i] = Failure(Sources[i], "Not provided")

\* C17: retries are bounded and selective: at most stop_after_attempt
\* attempts per connector, and a further attempt only after an attempt that
\* raised a network error, never after one that ended in a failure record
\* or in another kind of error.
C17_RetriesBoundedAndSelective ==
    /\ [](\A s \in SourceSet : svc.conn[s].attempt <= stop_after_attempt(s))
    /\ [][\A s \in SourceSet :
            (svc.conn[s].attempt >= 1 /\ svc'.conn[s].attempt > svc.conn[s].attempt)
               => /\ svc.conn[s].pc = "sleep"
                  /\ svc.conn[s].exc = "network error"]_vars

\* The failure records that stand for an upstream 5xx answer.
Upstream5xx == {"Firecrawl error: 503", "Apify error: 503"}

\* C18: a transient upstream error, a 5xx answer included, is retried up to
\* the connector's attempt bound before a failure record is produced, and
\* running out of attempts gives a failure record in the ScrapeResult:
\* scrape_all does not raise.
C18_TransientErrorsAreRetried ==
    /\ svc.pc # "raised"
    /\ \A s \in SourceSet :
          LET c == svc.conn[s] IN
          c.pc = "done" =>
             /\ IsException(c.result) => c.attempt = stop_after_attempt(s)
             /\ (~IsException(c.result) /\ c.result.returned.error \in Upstream5xx)
                   => c.attempt = stop_after_attempt(s)
    /\ svc.pc = "scraped" =>
          \A i \in DOMAIN Sources :
             svc.scrape_result.sources[i].source = Sources[i]

\* The AI answered a text that is no JSON object of the asked-for shape.
Malformed(outcome) ==
    /\ outcome.kind = "content"
    /\ \/ outcome.body \in {"prose", "truncated object", "list", "object with null contact"}
       \/ outcome.fence = "unclosed" /\ outcome.body # "object then prose"

\* C19: when the AI call fails, and when its answer is malformed or cannot
\* be parsed, extract_business_data returns the minimal profile: the given
\* business name, quality score 0, missing_fields ["all"].
C19_BadAiAnswerGivesMinimalProfile ==
    (svc.pc = "extracted" /\ (svc.ai.kind = "raises" \/ Malformed(svc.ai)))
       => svc.extracted_data = MinimalProfile(svc.request.business_name)

\* C20: when no source yielded data (raw_data is empty) the extraction
\* returns the minimal profile, whatever the AI answers.
C20_NoDataGivesMinimalProfile ==
    (svc.pc = "extracted" /\ DOMAIN svc.scrape_result.raw_data = {})
       => svc.extracted_data = MinimalProfile(svc.request.business_name)

\* C21: fill_gaps given a profile with quality score >= 70 and no missing
\* fields makes no AI call and returns the profile unchanged, so that any
\* number of applications returns the identical data.
C21_FillGapsNoOpWhenComplete ==
    (/\ gap.pc = "returned"
     /\ gap.given.data_quality_score >= 70
     /\ gap.given.missing_fields = <<>>)
       => /\ gap.calls = 0
          /\ ~gap.merged
          /\ gap.result = gap.given

\* fill_gaps was applied a second time, to a complete profile it had
\* returned, and returned it again
C21_Witness ==
    /\ gap.pc = "returned"
    /\ gap.n = 2
    /\ gap.given.data_quality_score >= 70
    /\ gap.given.missing_fields = <<>>
    /\ gap.result = gap.given

\* C22: the quality score fill_gaps returns is at most 100 and not lower
\* than the score it was given, for every profile extraction can produce and
\* every AI answer; after a successful merge it is min(100, score + 15).
C22_ScoreBoundedAndMonotone ==
    gap.pc = "returned" =>
       /\ gap.result.data_quality_score <= 100
       /\ gap.result.data_quality_score >= gap.given.data_quality_score
       /\ gap.merged =>
             gap.result.data_quality_score = Min(100, gap.given.data_quality_score + 15)

Names(fields) == {fields[i] : i \in DOMAIN fields}

\* C23: across fill_gaps missing_fields only shrinks, and only by names
\* whose attribute is populated: the returned list is a sub-list of the
\* given one, a name is dropped only if its attribute is truthy after the
\* merge, and a name whose attribute is still empty stays.
C23_MissingFieldsOnlyShrink ==
    gap.pc = "returned" =>
       LET before == gap.given.missing_fields
           after == gap.result.missing_fields IN
       /\ after = SelectSeq(before, LAMBDA f : f \in Names(after))
       /\ \A f \in Names(before) :
             /\ f \notin Names(after) => AttrTruthy(gap.result, f)
             /\ ~AttrTruthy(gap.result, f) => f \in Names(after)

\* C24: the merge overwrites no present value: a text field and the USPs
\* keep a value they had, services is replaced only by a strictly longer
\* list of the AI, and every other content field is left as it was.
C24_MergeKeepsPresentValues ==
    gap.pc = "returned" =>
       /\ \A f \in TextFields : gap.given[f] # NULL => gap.result[f] = gap.given[f]
       /\ gap.given.unique_selling_points # <<>>
             => gap.result.unique_selling_points = gap.given.unique_selling_points
       /\ gap.result.services # gap.given.services
             => /\ gap.ai.kind = "content"
                /\ gap.ai.gap_data.type = "dict"
                /\ Len(Get(gap.ai.gap_data.items, "services", <<>>)) > Len(gap.given.services)
       /\ \A f \in {"business_name", "contact", "hours"} : gap.result[f] = gap.given[f]

\* a merge that filled the empty short description and left the tagline
\* that was there, the AI having offered another one
C24_Witness ==
    /\ gap.pc = "returned"
    /\ gap.merged
    /\ gap.given.tagline = "Old tagline"
    /\ Get(gap.ai.gap_data.items, "tagline", NULL) = "New tagline"
    /\ gap.given.description_short = NULL
    /\ gap.result.description_short = "New short"
    /\ gap.given.services # <<>>
    /\ gap.result.services # gap.given.services

\* C25: when the gap-fill AI call or the processing of its answer fails at
\* any point, part-way through the merge included, fill_gaps returns data
\* equal in every field to the data it was given (and does not raise).
C25_FailureReturnsDataUnchanged ==
    (gap.pc = "returned" /\ gap.calls = 1 /\ ~gap.merged)
       => gap.result = gap.given

\* The positions of process_job before the test of orchestrator.py 102, and
\* from the test to the gap-fill AI call.
BeforeGapTest == {"ai58", "ai74"}
GapFillPath == {"orch103", "ai103", "ai108"}
AfterGapFill == {"ai124", "orch115", "gen43", "gen91", "gen127"}

\* C26: in a pipeline run the gap-fill AI call is made exactly when the
\* extracted profile has a quality score below 70 or a non-empty
\* missing_fields, and a failure of that call does not abort the run: site
\* generation is attempted afterwards.
C26_GapFillIsConditionalAndBestEffort ==
    [][\A j \in JobIds :
         /\ (proc[j].pc \in BeforeGapTest /\ proc'[j].pc \notin BeforeGapTest)
               => (proc'[j].pc \in GapFillPath <=>
                      \/ ProfileOf(proc'[j].extracted_data).data_quality_score < 70
                      \/ ProfileOf(proc'[j].extracted_data).missing_fields # <<>>)
         /\ (proc[j].pc \in GapFillPath \ {"ai108"} /\ proc'[j].pc # proc[j].pc)
               => proc'[j].pc \in GapFillPath
         /\ (proc[j].pc = "ai108" /\ proc'[j].pc # "ai108")
               => /\ proc'[j].pc \in AfterGapFill
                  /\ jobs'[j].status # "failed"]_vars

\* a job completed with its site although the gap-fill call it needed for
\* a profile with a good score and a missing field failed
C26_Witness ==
    \E j \in Created :
       /\ jobs[j].status = "completed"
       /\ jobs[j].generated_site # None
       /\ jobs[j].extracted_data = "incomplete profile"

\* The tasks that hold a Job they got from job_store.get (main.py 98, 224)
\* and are suspended with it.
ProcessHolds(j) == proc[j].pc \notin {"off", "new", "queued", "end"}
DeployHolds(d, j) == dep[d].pc \notin {"off", "idle", "end"} /\ dep[d].job = j

\* C27: the store hands out snapshots: the Job a task got from get is not
\* altered by what the pipeline or a deploy does afterwards, so a change of
\* the Job a suspended task holds is made by a step of that task alone.
C27_GetReturnsSnapshots ==
    [][\A j \in JobIds :
         (jobs[j] # None /\ jobs'[j] # jobs[j]) =>
            /\ ProcessHolds(j) => proc'[j] # proc[j]
            /\ \A d \in DeployReqs : DeployHolds(d, j) => dep'[d] # dep[d]]_vars

\* C28: the store holds at most one record per job id; create and update
\* put the whole given record in the place of a previous one with that id
\* and touch no other record; delete(id) removes the record and returns
\* true exactly when there was one, and otherwise changes nothing; a record
\* disappears through delete only.
C28_OneRecordPerId ==
    /\ [](\A i, k \in DOMAIN store._jobs :
             store._jobs[i].id = store._jobs[k].id => i = k)
    /\ [][LET op == store'.op
              before == store._jobs
              after == store'._jobs IN
          /\ op.name \in {"create", "update"} =>
                /\ Lookup(after, op.id) = op.job
                /\ IdsOf(after) = IdsOf(before) \cup {op.id}
                /\ \A id \in IdsOf(before) \ {op.id} :
                      Lookup(after, id) = Lookup(before, id)
          /\ op.name = "delete" =>
                /\ op.answer.bool = (op.id \in IdsOf(before))
                /\ IdsOf(after) = IdsOf(before) \ {op.id}
                /\ \A id \in IdsOf(after) : Lookup(after, id) = Lookup(before, id)
                /\ ~op.answer.bool => after = before
          /\ (\E id \in IdsOf(before) : id \notin IdsOf(after)) => op.name = "delete"
         ]_vars

\* an update of the job that was stored first, with two more jobs in the
\* store: its record was replaced where it stood
C28_Witness ==
    /\ store.op.name = "update"
    /\ Len(store._jobs) = 3
    /\ store._jobs[1] = store.op.job
    /\ store._jobs[1].status = "completed"

Matches(job, status) == status = NULL \/ job.status = status

NonIncreasing(jobList) ==
    \A i, k \in DOMAIN jobList : i < k => jobList[i].created_at >= jobList[k].created_at

\* Pages 1 to n of a listing, one after the other.
RECURSIVE PagesUpTo(_, _, _, _)
PagesUpTo(n, _jobs, page_size, status) ==
    IF n = 0 THEN <<>>
    ELSE PagesUpTo(n - 1, _jobs, page_size, status) \o list(_jobs, n, page_size, status)

\* C29: for every store content, filter, page >= 1 and page_size >= 1, list
\* returns at most page_size jobs, all matching the filter, in non-increasing
\* creation time; the pages 1, 2, ... together list every matching job
\* exactly once in that order; count is the number of matching jobs.
C29_ListPagesAndCount ==
    /\ \A page_size \in 1..MaxPageSize, status \in {NULL, "pending", "completed"} :
          LET matching == {i \in DOMAIN store._jobs : Matches(store._jobs[i], status)}
              all == PagesUpTo(Len(store._jobs) + 1, store._jobs, page_size, status) IN
          /\ \A page \in 1..MaxPage :
                LET answer == list(store._jobs, page, page_size, status) IN
                /\ Len(answer) <= page_size
                /\ \A i \in DOMAIN answer : Matches(answer[i], status)
                /\ NonIncreasing(answer)
          /\ Len(all) = Cardinality(matching)
          /\ \A i \in matching : \E k \in DOMAIN all : all[k] = store._jobs[i]
          /\ NonIncreasing(all)
          /\ count(store._jobs, status) = Cardinality(matching)
    /\ store.op.name = "list_jobs" =>
          /\ store.op.answer.jobs = list(store._jobs, store.op.args.page,
                                         store.op.args.page_size, store.op.args.status)
          /\ store.op.answer.total =
                Cardinality({i \in DOMAIN store._jobs :
                               Matches(store._jobs[i], store.op.args.status)})

\* the second page of size 2 of three pending jobs, the older two created at
\* the same time: it holds the one job left
C29_Witness ==
    /\ store.op.name = "list_jobs"
    /\ store.op.args = [page |-> 2, page_size |-> 2, status |-> "pending"]
    /\ store.op.answer.total = 3
    /\ Len(store.op.answer.jobs) = 1
    /\ \E i, k \in DOMAIN store._jobs :
          i # k /\ store._jobs[i].created_at = store._jobs[k].created_at

\* A step that takes the task with locals loc out of the fan-out loop it is
\* suspended in (to loc2): not its next push, not a step of somebody else.
LeavesFanOut(loc, loc2) ==
    /\ loc.pos > 0
    /\ loc2.pc # loc.pc \/ loc2.pos = 0

\* Every connected subscriber of j has been sent the job as it is now.
AllServed(j) ==
    \A i \in DOMAIN Subscribers(j) :
       sock[Subscribers(j)[i]].open => sock[Subscribers(j)[i]].last = jobs[j]

\* C30: when the push to one subscriber raises, notify_job_update still
\* attempts the push to every other subscriber of the job, and nothing
\* escapes to the pipeline or the deploy that made the notification: it goes
\* on without a new exception.
C30_FailedPushStaysLocal ==
    [][/\ \A j \in JobIds :
             (proc[j].raised /\ LeavesFanOut(proc[j], proc'[j]))
                => AllServed(j) /\ proc'[j].exc \in {proc[j].exc, NULL}
       /\ \A d \in DeployReqs :
             (dep[d].raised /\ LeavesFanOut(dep[d], dep'[d]))
                => AllServed(dep[d].job) /\ dep'[d].exc \in {dep[d].exc, NULL}]_vars

\* A step that makes a push of a fan-out: the task (locals loc before, loc2
\* after) has entered a notification or moved on to the next list position.
PushMade(loc, loc2) ==
    /\ loc2.pos > 0
    /\ loc2.pos # loc.pos \/ loc2.pc # loc.pc

\* The push that the step makes for job j is to a connection that the client
\* has closed: send_json raises.
PushFails(j, loc, loc2) ==
    /\ PushMade(loc, loc2)
    /\ ~sock[Subscribers(j)[loc2.pos]].open

\* The connection the step's push goes to does not occur in list.
Dropped(j, loc2, members) ==
    \A i \in DOMAIN members : members[i] # Subscribers(j)[loc2.pos]

\* C31: a subscriber whose push fails is dropped by the fan-out: after the
\* failed push it is no longer in the subscriber list of the job.
C31_FailedPushDropsSubscriber ==
    [][/\ \A j \in JobIds :
             PushFails(j, proc[j], proc'[j])
                => Dropped(j, proc'[j], Subscribers(j)')
       /\ \A d \in DeployReqs, j \in JobIds :
             (dep'[d].job = j /\ PushFails(j, dep[d], dep'[d]))
                => Dropped(j, dep'[d], Subscribers(j)')]_vars

\* The handler of connection w is between its registration (main.py 297-299)
\* and its finally clause (main.py 317-322): to the server the connection
\* is live, whether or not the client has already closed its end.
Registered(w) == sock[w].pc \in {"initial", "listening"}

\* C32: in every reachable state a job id is a key of ws_connections if and
\* only if at least one live connection is subscribed to it; the list of a
\* key holds exactly the live connections of that job, each once, and no key
\* maps to an empty list.
C32_RegistryHoldsLiveConnections ==
    /\ DOMAIN ws_connections \subseteq JobIds
    /\ \A j \in JobIds :
          j \in DOMAIN ws_connections
             <=> \E w \in Sockets : Registered(w) /\ sock[w].job = j
    /\ \A j \in DOMAIN ws_connections :
          /\ ws_connections[j] # <<>>
          /\ \A w \in Sockets :
                Cardinality({i \in DOMAIN ws_connections[j] : ws_connections[j][i] = w})
                   = IF Registered(w) /\ sock[w].job = j THEN 1 ELSE 0

\* Two connections of a job have disconnected while a fan-out of the job was
\* in progress, and the entry is gone with the last of them.
C32_Witness ==
    /\ DOMAIN ws_connections = {}
    /\ \A w \in Sockets : sock[w].pc = "closed"
    /\ \E j \in JobIds : proc[j].stale /\ proc[j].pos > 0

\* No notification of job j is in progress: every notify_job_update call
\* made for j so far has returned.
Quiet(j) ==
    /\ proc[j].pos = 0
    /\ \A d \in DeployReqs : dep[d].job = j => dep[d].pos = 0

\* C33: a subscriber that stays connected receives a snapshot for every
\* state change of its job made after it subscribed: once the
\* notifications of the job have returned, every connected subscriber has
\* been sent the job as it is stored.
C33_NoPushIsMissed ==
    \A j \in JobIds :
       (jobs[j] # None /\ Quiet(j))
          => \A w \in Listening(j) : sock[w].last = jobs[j]

\* A step in which connection w, already holding a snapshot, is sent one
\* that differs from it.
Pushed(w) ==
    /\ sock[w].last # None
    /\ sock'[w].last # None
    /\ sock'[w].last # sock[w].last

\* C34: after its first snapshot a subscriber gets exactly one push per
\* stage transition of the job: every snapshot pushed to it differs from the
\* one before in the stage of the job (its current_stage or its status).
C34_OnePushPerStageTransition ==
    [][\A w \in Sockets :
          Pushed(w) =>
             \/ sock'[w].last.current_stage # sock[w].last.current_stage
             \/ sock'[w].last.status # sock[w].last.status]_vars

\* Sequence b is sequence a with zero or more elements added at the end.
Extends(b, a) ==
    /\ Len(a) <= Len(b)
    /\ \A i \in DOMAIN a : b[i] = a[i]

\* C35: the progress log of a job is append-only and ordered: every step
\* leaves the events it holds in place and adds new ones at the end, and
\* the log of each snapshot pushed to a subscriber extends the log of the
\* snapshot pushed to it before.
C35_ProgressIsAppendOnly ==
    [][/\ \A j \in JobIds :
             jobs[j] # None =>
                /\ jobs'[j] # None
                /\ Extends(jobs'[j].progress, jobs[j].progress)
       /\ \A w \in Sockets :
             (sock[w].last # None /\ sock'[w].last # None) =>
                Extends(sock'[w].last.progress, sock[w].last.progress)]_vars

\* The only subscriber was registered before the pipeline started; it has
\* been pushed the first event and now the first two.
C35_Witness ==
    /\ sock["w2"].pc = "off"
    /\ sock["w1"].open
    /\ \E j \in JobIds :
          /\ proc[j].pc = "scr70" /\ proc[j].pos = 1
          /\ sock["w1"].last # None
          /\ sock["w1"].last.progress = <<<<"scraping", 5>>, <<"scraping", 10>>>>

\* The step is an operation on job j: its record is written, or its
\* pipeline or a deploy of it moves on (runs to its next await, or makes
\* the next push of a notification).
OperatesOn(j) ==
    \/ jobs'[j] # jobs[j]
    \/ proc'[j].pc # proc[j].pc \/ proc'[j].pos # proc[j].pos
    \/ \E d \in DeployReqs :
          /\ dep'[d].job = j
          /\ dep'[d].pc # dep[d].pc \/ dep'[d].pos # dep[d].pos

\* C36: jobs are independent: an operation on job j (progress, completion,
\* failure, deploy) changes the record of no other job, leaves the pipeline
\* of every other job where it is, pushes only to connections subscribed to
\* j, and does not touch the registry.
C36_JobsAreIndependent ==
    [][\A j \in JobIds :
          OperatesOn(j) =>
             /\ \A k \in JobIds \ {j} : jobs'[k] = jobs[k] /\ proc'[k] = proc[k]
             /\ \A d \in DeployReqs : dep'[d].job # j => dep'[d] = dep[d]
             /\ \A w \in Sockets : sock'[w] # sock[w] => sock[w].job = j
             /\ ws_connections' = ws_connections]_vars

\* One pipeline has failed and the other has completed, and a subscriber
\* of the job that completed holds its record.
C36_Witness ==
    \E j, k \in JobIds, w \in Sockets :
       /\ j # k
       /\ proc[j].pc = "end" /\ jobs[j].status = "failed"
       /\ proc[k].pc = "end" /\ jobs[k].status = "completed"
       /\ jobs[j].generated_site = None
       /\ sock[w].job = k /\ sock[w].open /\ sock[w].last = jobs[k]

\* The step takes the run to position pc.
Enters(pc) == svc'.pc = pc /\ svc.pc # pc

\* C37: the stages of one run are strictly ordered.  Every connector can
\* start while the others are still running (all four are started before
\* any is waited for) and gather returns only when all four have finished;
\* the extraction call starts only after that, the gap-fill call only after
\* the extraction returned, the generation only after the extraction and,
\* where the profile has gaps, the gap fill returned, and the results are
\* recorded in the job only after the generation returned.
C37_StagesStrictlyOrdered ==
    /\ [](svc.pc = "gather" =>
             \A s \in SourceSet : svc.conn[s].pc = "todo" => ENABLED TaskRuns(s))
    /\ [][/\ (svc.pc = "gather" /\ svc'.pc # "gather") => AllDone
          /\ Enters("ai") => svc.pc = "scraped" /\ svc.scrape_result # None
          /\ Enters("gap") => svc.pc = "extracted" /\ svc.extracted_data # None
          /\ Enters("generating") =>
                /\ svc.extracted_data # None
                /\ svc.pc = IF svc.calls = <<>> THEN "extracted" ELSE "filled"
                /\ svc.calls = <<>> => ~GapsToFill(svc.extracted_data)
          /\ svc'.job # svc.job =>
                /\ svc.pc = "returned"
                /\ svc.generated_site # None
                /\ svc'.job.generated_site = svc.generated_site]_vars

\* A run with a gap fill has recorded its results.
C37_Witness ==
    /\ svc.pc = "recorded"
    /\ svc.calls = <<"fill_gaps", "generate">>
    /\ svc.job.status = "completed"
    /\ svc.job.scrape_result = svc.scrape_result
    /\ svc.job.generated_site # None

\* The engine whose call returned the HTML of a site.
EngineOf(site) ==
    IF site.html = "premium html" THEN "21st_dev" ELSE "tailwind_modern"

\* C38: template_used of a GeneratedSite names the engine that produced its
\* HTML, in the pipeline's hands and in the stored job: a site that the
\* template path produced after the premium backend failed names the
\* template.
C38_TemplateUsedNamesTheEngine ==
    \A j \in JobIds :
       /\ proc[j].generated_site # None =>
             proc[j].generated_site.template_used = EngineOf(proc[j].generated_site)
       /\ (jobs[j] # None /\ jobs[j].generated_site # None) =>
             jobs[j].generated_site.template_used = EngineOf(jobs[j].generated_site)

\* A snapshot that says "completed" in its stage is a completed job with a
\* generated site.
CompletedMeansDone(snap) ==
    snap.current_stage = "completed" =>
       snap.status = "completed" /\ snap.generated_site # None

\* C39: in every snapshot of a job that is stored or pushed to a
\* subscriber, current_stage = "completed" implies that status is
\* completed and generated_site is not null.
C39_CompletedStageMeansCompleted ==
    /\ \A j \in JobIds : jobs[j] # None => CompletedMeansDone(jobs[j])
    /\ \A w \in Sockets : sock[w].last # None => CompletedMeansDone(sock[w].last)

====
